---- MODULE Spec2Model ----
(***************************************************************************)
(* A model of gcore/gdalproxypool.cpp: the GDALDatasetPool singleton (a    *)
(* bounded LRU list of opened datasets kept as an intrusive doubly-linked  *)
(* list) and the GDALProxyPoolDataset reference protocol on top of it.     *)
(*                                                                         *)
(* Every pool operation runs under the global mutex (CPLMutexHolderD), so  *)
(* each one is a single atomic step.  CPLAssert is compiled out unless     *)
(* DEBUG is defined: a failed assertion aborts the debug build and is a    *)
(* no-op in the release build.  The variable `build` is "any" until a      *)
(* failed assertion has been passed, which only the release build does.    *)
(* A scan that never reaches the end of the list leaves the program hung   *)
(* inside the call (status "hang").                                        *)
(***************************************************************************)
EXTENDS Integers, Sequences, FiniteSets, TLC

\* ---------------------------------------------------------------- bounds
\* GDAL_MAX_DATASET_POOL_SIZE as configured for the runs checked here.
MaxDatasetPoolSize == 2
\* Callers hold at most this many references on one entry at a time.
MaxPins == 2
\* A thread has at most this many RefUnderlyingDataset brackets open.
MaxNest == 2

\* --------------------------------------------------------------- domains
NULL == 0
\* Addresses CPLMalloc can return for a cache entry, and addresses of dataset
\* objects: one more than a full pool needs.
Ent == 1..(MaxDatasetPoolSize + 1)
Paths == {"A", "B", "C"}
Threads == {1, 2}
ProxyIds == {"p1", "p2"}
EmptyName == ""

VARIABLES
    singleton,   \* TRUE iff the static GDALDatasetPool* singleton is not NULL
    pool,        \* the fields of *singleton
    rid,         \* per thread: the responsible PID slot of the thread
    openDS,      \* the GDALDataset objects that are open (their addresses)
    pins,        \* per entry: references callers took and have not given back
    proxies,     \* the GDALProxyPoolDataset objects
    held,        \* per thread: stack of open RefUnderlyingDataset brackets
    build,       \* "any", or "release" once a failed CPLAssert was passed
    status,      \* "run", "abort" (failed CPLAssert) or "hang" (endless loop)
    last,        \* the operation performed last, its arguments and result
    derived,     \* per proxy: projection and geotransform overlays, memos
    out,         \* what the last accessor of a proxy returned, and how
    window,      \* the GDALOpenEx or GDALClose call the pool is inside of
    suppressed,  \* per proxy: refCountOfDisableRefCount > 0 at construction
    config,      \* the configuration option GDAL_MAX_DATASET_POOL_SIZE
    access,      \* eAccess of the last pool call and the flag each open
                 \* dataset was opened with
    bands        \* the overview band and the mask band of each proxy

vars == <<singleton, pool, rid, openDS, pins, proxies, held, build, status,
          last, derived, out, window, suppressed, config, access, bands>>

\* The variables only the accessors and the nested calls use.
ext == <<derived, out, window, suppressed, config, access, bands>>

\* ------------------------------------------------------------ cache entry
\* struct _GDALProxyPoolCacheEntry; alloc says whether the memory is live.
NoEntry ==
    [alloc |-> FALSE, responsiblePID |-> 0, pszFileName |-> EmptyName,
     poDS |-> NULL, refCount |-> 0, prev |-> NULL, next |-> NULL]

\* GDALDatasetPool::GDALDatasetPool(int maxSizeIn)
NewPool(maxSizeIn) ==
    [maxSize |-> maxSizeIn, currentSize |-> 0, firstEntry |-> NULL,
     lastEntry |-> NULL, refCount |-> 0, refCountOfDisableRefCount |-> 0,
     entry |-> [e \in Ent |-> NoEntry]]

\* CPLMalloc(sizeof(GDALProxyPoolCacheEntry)): a block that is not in use.
Malloc(p) == CHOOSE e \in Ent : ~p.entry[e].alloc /\
                 \A f \in Ent : ~p.entry[f].alloc => e <= f

\* Field stores through a pointer.
SetPrev(p, e, v) == [p EXCEPT !.entry[e].prev = v]
SetNext(p, e, v) == [p EXCEPT !.entry[e].next = v]

\* ------------------------------------------------------------ _RefDataset
\* What one call of a pool method hands back to the action that made it:
\* the pool afterwards, the returned entry, how the call ended, the handles
\* it closed, whether it called GDALOpenEx and whether a CPLAssert failed.
Result(p, ret, outcome, closed, opened, failed) ==
    [pool |-> p, ret |-> ret, outcome |-> outcome, closed |-> closed,
     opened |-> opened, assertFailed |-> failed]

\* Mutant of Matches: only the name is compared.
Matches_PathOnly(en, pszFileName, bShared, responsiblePID) ==
    en.pszFileName = pszFileName

\* Mutant of Matches: a shared request too needs refCount 0.
Matches_SharedNeedsIdle(en, pszFileName, bShared, responsiblePID) ==
    /\ en.pszFileName = pszFileName
    /\ en.refCount = 0
    /\ bShared => en.responsiblePID = responsiblePID

\* Mutant of Matches: a shared request does not compare responsiblePID.
Matches_AnyPID(en, pszFileName, bShared, responsiblePID) ==
    /\ en.pszFileName = pszFileName
    /\ bShared \/ en.refCount = 0

\* Mutant of Matches: an entry whose name is empty matches every name.
Matches_EmptyNameToo(en, pszFileName, bShared, responsiblePID) ==
    /\ en.pszFileName \in {pszFileName, EmptyName}
    /\ \/ bShared /\ en.responsiblePID = responsiblePID
       \/ ~bShared /\ en.refCount = 0

\* The condition of the if at lines 206-208.
Matches(en, pszFileName, bShared, responsiblePID) ==
    /\ en.pszFileName = pszFileName
    /\ \/ bShared /\ en.responsiblePID = responsiblePID
       \/ ~bShared /\ en.refCount = 0

\* The while(cur) loop of _RefDataset: where it stops ("hit" on a matching
\* entry, "miss" at the end of the list) and lastEntryWithZeroRefCount.  A
\* second visit of an entry that did not match means the loop never ends.
RECURSIVE ScanRef(_, _, _, _, _, _, _)
ScanRef(p, cur, pszFileName, bShared, responsiblePID, lastZero, seen) ==
    IF cur = NULL
    THEN [kind |-> "miss", cur |-> NULL, lastZero |-> lastZero]
    ELSE IF cur \in seen
    THEN [kind |-> "loop", cur |-> cur, lastZero |-> lastZero]
    ELSE IF Matches(p.entry[cur], pszFileName, bShared, responsiblePID)
    THEN [kind |-> "hit", cur |-> cur, lastZero |-> lastZero]
    ELSE ScanRef(p, p.entry[cur].next, pszFileName, bShared, responsiblePID,
                 IF p.entry[cur].refCount = 0 THEN cur ELSE lastZero,
                 seen \cup {cur})

\* Mutant of MoveToBegin: the last statement, firstEntry = cur, is missing.
MoveToBegin_HeadNotSet(p, cur) ==
    LET p1 == IF p.entry[cur].next # NULL
              THEN SetPrev(p, p.entry[cur].next, p.entry[cur].prev)
              ELSE [p EXCEPT !.lastEntry = p.entry[cur].prev]
        p2 == SetNext(p1, p1.entry[cur].prev, p1.entry[cur].next)
        p3 == SetPrev(p2, cur, NULL)
        p4 == SetPrev(p3, p3.firstEntry, cur)
    IN  SetNext(p4, cur, p4.firstEntry)

\* "Move to begin", lines 213-221, statement by statement (cur # firstEntry).
MoveToBegin(p, cur) ==
    LET p1 == IF p.entry[cur].next # NULL
              THEN SetPrev(p, p.entry[cur].next, p.entry[cur].prev)
              ELSE [p EXCEPT !.lastEntry = p.entry[cur].prev]
        p2 == SetNext(p1, p1.entry[cur].prev, p1.entry[cur].next)
        p3 == SetPrev(p2, cur, NULL)
        p4 == SetPrev(p3, p3.firstEntry, cur)
        p5 == SetNext(p4, cur, p4.firstEntry)
    IN  [p5 EXCEPT !.firstEntry = cur]

\* Mutant of RefHit: refCount++ of line 228 is missing.
RefHit_NoCount(p, cur) ==
    IF cur # p.firstEntry /\ p.entry[cur].prev = NULL
    THEN Result(p, NULL, "segv", {}, FALSE, FALSE)
    ELSE LET q == IF cur # p.firstEntry THEN MoveToBegin(p, cur) ELSE p
         IN  Result(q, cur, "hit", {}, FALSE, FALSE)

\* Mutant of RefHit: a hit on an entry whose dataset is NULL opens again.
RefHit_RetriesOpen(p, cur) ==
    IF cur # p.firstEntry /\ p.entry[cur].prev = NULL
    THEN Result(p, NULL, "segv", {}, FALSE, FALSE)
    ELSE LET q == IF cur # p.firstEntry THEN MoveToBegin(p, cur) ELSE p
         IN  Result([q EXCEPT !.entry[cur].refCount = @ + 1], cur, "hit",
                    {}, p.entry[cur].poDS = NULL, FALSE)

\* Lines 228-229 with the move of lines 210-226.
RefHit(p, cur) ==
    IF cur # p.firstEntry /\ p.entry[cur].prev = NULL
    THEN Result(p, NULL, "segv", {}, FALSE, FALSE)
    ELSE LET q == IF cur # p.firstEntry THEN MoveToBegin(p, cur) ELSE p
         IN  Result([q EXCEPT !.entry[cur].refCount = @ + 1], cur, "hit",
                    {}, FALSE, FALSE)

\* Lines 249-263: empty the name and close the dataset of the victim.
CloseVictim(p, z) ==
    [p EXCEPT !.entry[z].pszFileName = EmptyName, !.entry[z].poDS = NULL]

\* The victim is the head: lines 267-271 take the else branch.
VictimIsHead(p, z) == p.entry[z].prev = NULL

\* Lines 267-283, statement by statement, with CPLAssert compiled out.
Recycle(p, z) ==
    LET p1 == IF p.entry[z].prev # NULL
              THEN SetNext(p, p.entry[z].prev, p.entry[z].next)
              ELSE p
        p2 == IF p1.entry[z].next # NULL
              THEN SetPrev(p1, p1.entry[z].next, p1.entry[z].prev)
              ELSE [SetNext(p1, p1.entry[p1.lastEntry].prev, NULL)
                       EXCEPT !.lastEntry = p1.entry[p1.lastEntry].prev]
        p3 == SetPrev(p2, z, NULL)
        p4 == SetNext(p3, z, p3.firstEntry)
        p5 == SetPrev(p4, p4.firstEntry, z)
    IN  [p5 EXCEPT !.firstEntry = z]

\* "Prepend", lines 291-299.
Prepend(p, cur) ==
    LET p0 == [p EXCEPT !.entry[cur] = [NoEntry EXCEPT !.alloc = TRUE]]
        p1 == IF p0.lastEntry = NULL THEN [p0 EXCEPT !.lastEntry = cur] ELSE p0
        p2 == SetNext(SetPrev(p1, cur, NULL), cur, p1.firstEntry)
        p3 == IF p2.firstEntry # NULL THEN SetPrev(p2, p2.firstEntry, cur) ELSE p2
    IN  [p3 EXCEPT !.firstEntry = cur, !.currentSize = @ + 1]

\* Mutant of OpenInto: refCount is not set to 1.
OpenInto_RefCountNotSet(p, cur, pszFileName, responsiblePID, ds) ==
    [p EXCEPT !.entry[cur].pszFileName = pszFileName,
              !.entry[cur].responsiblePID = responsiblePID,
              !.entry[cur].poDS = ds]

\* Lines 305-315: fill the entry in and open the dataset; ds is what
\* GDALOpenEx returns (NULL when the open fails).
OpenInto(p, cur, pszFileName, responsiblePID, ds) ==
    [p EXCEPT !.entry[cur].pszFileName = pszFileName,
              !.entry[cur].responsiblePID = responsiblePID,
              !.entry[cur].refCount = 1,
              !.entry[cur].poDS = ds]

\* Mutant of RefFull: with no idle entry the tail is closed before the call
\* fails.
RefFull_ExhaustedClosesTail(p, z, pszFileName, responsiblePID, ds, debug) ==
    LET v == IF z = NULL THEN p.lastEntry ELSE z
        closed == IF p.entry[v].poDS # NULL THEN {p.entry[v].poDS} ELSE {}
        q == CloseVictim(p, v)
    IN  IF z = NULL
        THEN Result(q, NULL, "exhausted", closed, FALSE, FALSE)
        ELSE Result(OpenInto(Recycle(q, z), z, pszFileName, responsiblePID, ds),
                    z, "recycled", closed, TRUE, FALSE)

\* Lines 238-287: the pool is full.
RefFull(p, z, pszFileName, responsiblePID, ds, debug) ==
    IF z = NULL
    THEN Result(p, NULL, "exhausted", {}, FALSE, FALSE)
    ELSE LET closed == IF p.entry[z].poDS # NULL THEN {p.entry[z].poDS} ELSE {}
             q == CloseVictim(p, z)
             failed == \/ VictimIsHead(q, z)
                       \/ q.entry[z].next = NULL /\ z # q.lastEntry
         IN  IF debug /\ failed
             THEN Result(q, NULL, "assert", closed, FALSE, TRUE)
             ELSE IF q.entry[z].next = NULL /\ q.entry[q.lastEntry].prev = NULL
             THEN Result(q, NULL, "segv", closed, FALSE, failed)
             ELSE Result(OpenInto(Recycle(q, z), z, pszFileName,
                                  responsiblePID, ds),
                         z, "recycled", closed, TRUE, failed)

\* Mutant of IsFull: off by one.
IsFull_OffByOne(p) == p.currentSize = p.maxSize + 1

\* The test of line 238.
IsFull(p) == p.currentSize = p.maxSize

\* GDALDatasetPool::_RefDataset.
_RefDataset(p, pszFileName, bShared, responsiblePID, ds, debug) ==
    LET s == ScanRef(p, p.firstEntry, pszFileName, bShared, responsiblePID,
                     NULL, {})
    IN  CASE s.kind = "loop" -> Result(p, NULL, "hang", {}, FALSE, FALSE)
          [] s.kind = "hit"  -> RefHit(p, s.cur)
          [] s.kind = "miss" /\ IsFull(p) ->
                 RefFull(p, s.lastZero, pszFileName, responsiblePID, ds, debug)
          [] OTHER ->
                 LET cur == Malloc(p)
                 IN  Result(OpenInto(Prepend(p, cur), cur, pszFileName,
                                     responsiblePID, ds),
                            cur, "new", {}, TRUE, FALSE)

\* ---------------------------------------------------------- _CloseDataset
\* Mutant of ScanClose: the refCount of the entry is not tested.
RECURSIVE ScanClose_AnyRefCount(_, _, _, _)
ScanClose_AnyRefCount(p, cur, pszFileName, seen) ==
    IF cur = NULL
    THEN [kind |-> "miss", cur |-> NULL]
    ELSE IF cur \in seen
    THEN [kind |-> "loop", cur |-> cur]
    ELSE IF /\ p.entry[cur].pszFileName = pszFileName
            /\ p.entry[cur].poDS # NULL
    THEN [kind |-> "hit", cur |-> cur]
    ELSE ScanClose_AnyRefCount(p, p.entry[cur].next, pszFileName,
                               seen \cup {cur})

RECURSIVE ScanClose_LastMatch(_, _, _, _)
\* Mutant of ScanClose: the scan goes on to the last entry that qualifies.
ScanClose_LastMatch(p, cur, pszFileName, seen) ==
    IF cur = NULL
    THEN [kind |-> "miss", cur |-> NULL]
    ELSE IF cur \in seen
    THEN [kind |-> "loop", cur |-> cur]
    ELSE LET rest == ScanClose_LastMatch(p, p.entry[cur].next, pszFileName,
                                         seen \cup {cur})
         IN  IF rest.kind = "hit" THEN rest
             ELSE IF /\ p.entry[cur].pszFileName = pszFileName
                     /\ p.entry[cur].refCount = 0
                     /\ p.entry[cur].poDS # NULL
             THEN [kind |-> "hit", cur |-> cur]
             ELSE rest

\* The while(cur) loop of _CloseDataset: the first entry from the head with
\* this name, refCount 0 and an open dataset; NULL at the end of the list.
RECURSIVE ScanClose(_, _, _, _)
ScanClose(p, cur, pszFileName, seen) ==
    IF cur = NULL
    THEN [kind |-> "miss", cur |-> NULL]
    ELSE IF cur \in seen
    THEN [kind |-> "loop", cur |-> cur]
    ELSE IF /\ p.entry[cur].pszFileName = pszFileName
            /\ p.entry[cur].refCount = 0
            /\ p.entry[cur].poDS # NULL
    THEN [kind |-> "hit", cur |-> cur]
    ELSE ScanClose(p, p.entry[cur].next, pszFileName, seen \cup {cur})

\* Mutant of _CloseDataset: pszFileName[0] = '\0' of line 346 is missing.
_CloseDataset_KeepsName(p, pszFileName) ==
    LET s == ScanClose(p, p.firstEntry, pszFileName, {})
    IN  CASE s.kind = "loop" -> Result(p, NULL, "hang", {}, FALSE, FALSE)
          [] s.kind = "miss" -> Result(p, NULL, "none", {}, FALSE, FALSE)
          [] OTHER ->
                 Result([p EXCEPT !.entry[s.cur].poDS = NULL],
                        s.cur, "closed", {p.entry[s.cur].poDS}, FALSE, FALSE)

\* GDALDatasetPool::_CloseDataset (eAccess is CPL_UNUSED).
_CloseDataset(p, pszFileName) ==
    LET s == ScanClose(p, p.firstEntry, pszFileName, {})
    IN  CASE s.kind = "loop" -> Result(p, NULL, "hang", {}, FALSE, FALSE)
          [] s.kind = "miss" -> Result(p, NULL, "none", {}, FALSE, FALSE)
          [] OTHER ->
                 Result([p EXCEPT !.entry[s.cur].poDS = NULL,
                                  !.entry[s.cur].pszFileName = EmptyName],
                        s.cur, "closed", {p.entry[s.cur].poDS}, FALSE, FALSE)

\* ------------------------------------------------------------------ state
NoOp ==
    [op |-> "none", path |-> EmptyName, shared |-> FALSE, rid |-> 0,
     ret |-> NULL, outcome |-> "none", closed |-> {}, opened |-> FALSE,
     assertFailed |-> FALSE]

Op(op, path, shared, r_rid, r) ==
    [op |-> op, path |-> path, shared |-> shared, rid |-> r_rid,
     ret |-> r.ret, outcome |-> r.outcome, closed |-> r.closed,
     opened |-> r.opened, assertFailed |-> r.assertFailed]

\* A GDALProxyPoolDataset that is not alive: not constructed yet, or (dead)
\* destructed.
NoProxy ==
    [alive |-> FALSE, dead |-> FALSE, description |-> EmptyName, bShared |-> FALSE,
     responsiblePID |-> 0, cacheEntry |-> NULL]

\* A NULL char*, where a string is expected.
NullStr == "(null)"
\* A NULL double*, where six doubles are expected.
NoGeoTransform == <<>>
\* adfGeoTransform as lines 584-589 set it.
DefaultGeoTransform == <<0, 1, 0, 0, 0, 1>>

\* The fields of a GDALProxyPoolDataset the accessors use, before the
\* constructor has set them.
NoDerived ==
    [pszProjectionRef |-> NullStr, bHasSrcProjection |-> FALSE,
     adfGeoTransform |-> DefaultGeoTransform, bHasSrcGeoTransform |-> FALSE,
     metadataSet |-> {}, metadataItemSet |-> {}]

\* No accessor has run.
NoOut ==
    [op |-> "none", x |-> EmptyName, pszName |-> NullStr,
     pszDomain |-> NullStr, str |-> NullStr, gt |-> NoGeoTransform,
     list |-> <<>>, refs |-> 0, memo |-> FALSE]

\* The pool is inside no GDALOpenEx and no GDALClose.
NoWindow ==
    [kind |-> "none", t |-> 0, x |-> EmptyName, cur |-> NULL, ds |-> NULL,
     outcome |-> "none", responsiblePID |-> 0, curResponsiblePID |-> 0,
     rest |-> <<>>]

\* GDALProxyPoolOverviewRasterBand and GDALProxyPoolMaskBand.
BandKinds == {"overview", "mask"}

\* The fields of such a band after its constructor (lines 1239-1240,
\* 1288-1289, 1304-1305).
NoBand ==
    [poUnderlyingMainRasterBand |-> NULL,
     nRefCountUnderlyingMainRasterBand |-> 0]

\* GDAL_MAX_DATASET_POOL_SIZE is not set.
NoConfig == [set |-> FALSE, value |-> 0]

\* No eAccess: of a dataset that is not open, of a call that has none.
NoAccess == "none"

ExtInit ==
    /\ config = NoConfig
    /\ bands = [x \in ProxyIds |-> [k \in BandKinds |-> NoBand]]
    /\ access = [eAccess |-> NoAccess, of |-> [d \in Ent |-> NoAccess]]
    /\ derived = [x \in ProxyIds |-> NoDerived]
    /\ out = NoOut
    /\ window = NoWindow
    /\ suppressed = [x \in ProxyIds |-> FALSE]

\* How a call that does not return ends the program.
StatusAfter(outcome) ==
    CASE outcome = "hang" -> "hang"
      [] outcome \in {"assert", "segv"} -> "abort"
      [] OTHER -> "run"

\* The pool after its constructor, with every thread's responsible PID slot
\* holding the thread's own id.
Init ==
    /\ singleton = TRUE
    /\ pool = NewPool(MaxDatasetPoolSize)
    /\ rid = [t \in Threads |-> t]
    /\ openDS = {}
    /\ pins = [e \in Ent |-> 0]
    /\ proxies = [x \in ProxyIds |-> NoProxy]
    /\ held = [t \in Threads |-> <<>>]
    /\ build = "any"
    /\ status = "run"
    /\ last = NoOp
    /\ ExtInit

\* The build after a call: passing a failed CPLAssert shows it is release.
BuildAfter(r) ==
    IF r.assertFailed /\ r.outcome # "assert" THEN "release" ELSE build

\* GDALOpenEx: NULL when the open fails, else a dataset object at an address
\* no open dataset occupies (the lowest one; addresses of closed datasets
\* are used again).
GDALOpenEx(open) ==
    {NULL} \cup {d \in Ent : d \notin open /\ \A c \in Ent \ open : d <= c}

\* The ways one _RefDataset call can go: what GDALOpenEx returns if it is
\* called, and, where a CPLAssert fails and the build may still be either,
\* the abort of the debug build beside the release build's continuing.
RefOutcomes(p, pszFileName, bShared, responsiblePID, open) ==
    LET r0 == _RefDataset(p, pszFileName, bShared, responsiblePID, NULL, FALSE)
        opens == IF r0.opened
                 THEN {_RefDataset(p, pszFileName, bShared, responsiblePID, ds,
                                   FALSE) : ds \in GDALOpenEx(open \ r0.closed)}
                 ELSE {r0}
        aborts == IF r0.assertFailed /\ build = "any"
                  THEN {_RefDataset(p, pszFileName, bShared, responsiblePID,
                                    NULL, TRUE)}
                  ELSE {}
    IN  opens \cup aborts

\* The open datasets after a call with result r that opened into entry r.ret.
OpenAfter(open, r) ==
    (open \ r.closed) \cup
    (IF r.opened /\ r.pool.entry[r.ret].poDS # NULL
     THEN {r.pool.entry[r.ret].poDS} ELSE {})

\* GDALDatasetPool::RefDataset called by thread t.
RefDataset(t, pszFileName, bShared) ==
    /\ status = "run"
    /\ singleton
    /\ \E r \in RefOutcomes(pool, pszFileName, bShared, rid[t], openDS) :
         /\ r.ret # NULL => pins[r.ret] < MaxPins
         /\ pool' = r.pool
         /\ status' = StatusAfter(r.outcome)
         /\ build' = BuildAfter(r)
         /\ openDS' = OpenAfter(openDS, r)
         /\ pins' = IF r.ret # NULL
                    THEN [pins EXCEPT ![r.ret] = @ + 1]
                    ELSE pins
         /\ last' = Op("RefDataset", pszFileName, bShared, rid[t], r)
    /\ UNCHANGED <<singleton, rid, proxies, held>>
    /\ UNCHANGED ext

\* Mutant of UnrefDataset: the dataset is closed when refCount reaches 0.
UnrefDataset_ClosesAtZero(cacheEntry) ==
    /\ status = "run"
    /\ singleton
    /\ pins[cacheEntry] > 0
    /\ pool' = IF pool.entry[cacheEntry].refCount = 1
               THEN [pool EXCEPT !.entry[cacheEntry].refCount = 0,
                                 !.entry[cacheEntry].poDS = NULL]
               ELSE [pool EXCEPT !.entry[cacheEntry].refCount = @ - 1]
    /\ openDS' = IF pool.entry[cacheEntry].refCount = 1
                 THEN openDS \ {pool.entry[cacheEntry].poDS}
                 ELSE openDS
    /\ pins' = [pins EXCEPT ![cacheEntry] = @ - 1]
    /\ last' = [NoOp EXCEPT !.op = "UnrefDataset", !.ret = cacheEntry]
    /\ UNCHANGED <<singleton, rid, proxies, held, build, status>>
    /\ UNCHANGED ext

\* GDALDatasetPool::UnrefDataset on an entry a caller holds a reference on.
UnrefDataset(cacheEntry) ==
    /\ status = "run"
    /\ singleton
    /\ pins[cacheEntry] > 0
    /\ pool' = [pool EXCEPT !.entry[cacheEntry].refCount = @ - 1]
    /\ pins' = [pins EXCEPT ![cacheEntry] = @ - 1]
    /\ last' = [NoOp EXCEPT !.op = "UnrefDataset", !.ret = cacheEntry]
    /\ UNCHANGED <<singleton, rid, openDS, proxies, held, build, status>>
    /\ UNCHANGED ext

\* GDALDatasetPool::CloseDataset called by thread t.
CloseDataset(t, pszFileName) ==
    /\ status = "run"
    /\ singleton
    /\ LET r == _CloseDataset(pool, pszFileName)
       IN  /\ pool' = r.pool
           /\ status' = StatusAfter(r.outcome)
           /\ openDS' = openDS \ r.closed
           /\ last' = Op("CloseDataset", pszFileName, FALSE, rid[t], r)
    /\ UNCHANGED <<singleton, rid, pins, proxies, held, build>>
    /\ UNCHANGED ext

Next ==
    \/ \E t \in Threads, f \in Paths, b \in BOOLEAN : RefDataset(t, f, b)
    \/ \E e \in Ent : UnrefDataset(e)
    \/ \E t \in Threads, f \in Paths : CloseDataset(t, f)

Spec == Init /\ [][Next]_vars

\* ------------------------------------------------------- reading the list
\* The entries met by following next from firstEntry, in order, up to the
\* end of the list or to the first entry met a second time.
RECURSIVE WalkFrom(_, _, _)
WalkFrom(p, cur, acc) ==
    IF cur = NULL \/ \E i \in 1..Len(acc) : acc[i] = cur
    THEN acc
    ELSE WalkFrom(p, p.entry[cur].next, Append(acc, cur))

Walk(p) == WalkFrom(p, p.firstEntry, <<>>)

OnList(p, e) == \E i \in 1..Len(Walk(p)) : Walk(p)[i] = e

\* A sequence without the entry e.
Without(w, e) == SelectSeq(w, LAMBDA x : x # e)

\* The entries whose memory is live.
Allocated(p) == {e \in Ent : p.entry[e].alloc}

\* The list is a well-formed doubly-linked list of currentSize entries.
WellFormed(p) ==
    LET w == Walk(p)
        n == Len(w)
    IN  /\ n = p.currentSize
        /\ IF n = 0
           THEN p.firstEntry = NULL /\ p.lastEntry = NULL
           ELSE /\ p.entry[w[1]].prev = NULL
                /\ p.entry[w[n]].next = NULL
                /\ p.lastEntry = w[n]
        /\ \A i \in 1..(n - 1) : p.entry[w[i + 1]].prev = w[i]

IsRef(o) == o.op = "RefDataset"

\* Mutant of Ref: refCount++ whatever refCountOfDisableRefCount is.
Ref_AlwaysCounts(sing, p) ==
    LET q == IF sing THEN p ELSE NewPool(MaxDatasetPoolSize)
    IN  [q EXCEPT !.refCount = @ + 1]

\* ------------------------------------------------- the pool as a singleton
\* GDALDatasetPool::Ref: create the singleton if there is none, and count
\* the reference unless refCountOfDisableRefCount is set.
Ref(sing, p) ==
    LET q == IF sing THEN p ELSE NewPool(MaxDatasetPoolSize)
    IN  IF q.refCountOfDisableRefCount = 0
        THEN [q EXCEPT !.refCount = @ + 1]
        ELSE q

\* GDALDatasetPool::~GDALDatasetPool: walks the list, closes every open
\* dataset and frees every entry it meets.  assertFailed: CPLAssert(
\* cur->refCount == 0) fails; freedTwice: the walk comes back to an entry it
\* has freed (undefined behaviour).
Destroy(p) ==
    LET w == Walk(p)
        met == {w[i] : i \in 1..Len(w)}
    IN  [closed |-> {p.entry[e].poDS : e \in met} \ {NULL},
         assertFailed |-> \E e \in met : p.entry[e].refCount # 0,
         freedTwice |-> w # <<>> /\ p.entry[w[Len(w)]].next # NULL]

\* GDALDatasetPool::Unref: whether the call deletes the singleton.
UnrefDeletes(p) ==
    p.refCountOfDisableRefCount = 0 /\ p.refCount - 1 = 0

\* GDALDatasetPool::Unref when it does not delete the singleton.
Unref(p) ==
    IF p.refCountOfDisableRefCount = 0
    THEN [p EXCEPT !.refCount = @ - 1]
    ELSE p

\* ------------------------------------------------------------ the proxies
\* The pool-less state before the first GDALProxyPoolDataset is made.
ProxyInit ==
    /\ singleton = FALSE
    /\ pool = NewPool(MaxDatasetPoolSize)
    /\ rid = [t \in Threads |-> t]
    /\ openDS = {}
    /\ pins = [e \in Ent |-> 0]
    /\ proxies = [x \in ProxyIds |-> NoProxy]
    /\ held = [t \in Threads |-> <<>>]
    /\ build = "any"
    /\ status = "run"
    /\ last = NoOp
    /\ ExtInit

\* No bracket is open on the proxy x.
Unused(x) ==
    \A t \in Threads : \A i \in 1..Len(held[t]) : held[t][i].p # x

\* GDALProxyPoolDataset::GDALProxyPoolDataset run by thread t; x is the new
\* object.
ProxyCreate(t, x, pszSourceDatasetDescription, bSharedIn) ==
    /\ status = "run"
    /\ ~proxies[x].alive /\ ~proxies[x].dead
    /\ singleton' = TRUE
    /\ pool' = Ref(singleton, pool)
    /\ proxies' = [proxies EXCEPT ![x] =
                      [alive |-> TRUE, dead |-> FALSE,
                       description |-> pszSourceDatasetDescription,
                       bShared |-> bSharedIn,
                       responsiblePID |-> rid[t],
                       cacheEntry |-> NULL]]
    /\ last' = [NoOp EXCEPT !.op = "Ref", !.rid = rid[t]]
    /\ UNCHANGED <<rid, openDS, pins, held, build, status>>
    /\ UNCHANGED ext

\* GDALProxyPoolDataset::~GDALProxyPoolDataset run by thread t on a proxy
\* nothing is using: CloseDataset unless the proxy is shared, then Unref,
\* which deletes the pool when it drops the last reference.  A destructor
\* that frees an entry twice may abort, hang or carry on.
ProxyDestroy(t, x) ==
    /\ status = "run"
    /\ proxies[x].alive
    /\ Unused(x)
    /\ LET r == IF proxies[x].bShared
                THEN Result(pool, NULL, "none", {}, FALSE, FALSE)
                ELSE _CloseDataset(pool, proxies[x].description)
           d == Destroy(r.pool)
           gone == [NoProxy EXCEPT !.dead = TRUE]
       IN  IF r.outcome = "hang"
           THEN /\ status' = "hang"
                /\ last' = Op("CloseDataset", proxies[x].description, FALSE,
                              rid[t], r)
                /\ UNCHANGED <<singleton, pool, openDS, proxies, build>>
           ELSE IF ~UnrefDeletes(r.pool)
           THEN /\ pool' = Unref(r.pool)
                /\ openDS' = openDS \ r.closed
                /\ proxies' = [proxies EXCEPT ![x] = gone]
                /\ last' = Op("Unref", proxies[x].description, FALSE, rid[t], r)
                /\ UNCHANGED <<singleton, build, status>>
           ELSE \E end \in (IF d.assertFailed /\ build = "any"
                            THEN {"abort"} ELSE {})
                           \cup (IF d.freedTwice
                                 THEN {"abort", "hang", "run"} ELSE {"run"}) :
                  /\ status' = end
                  /\ build' = IF d.assertFailed /\ end # "abort"
                              THEN "release" ELSE build
                  /\ singleton' = (end # "run")
                  /\ pool' = IF end = "run" THEN NewPool(MaxDatasetPoolSize)
                             ELSE r.pool
                  /\ openDS' = (openDS \ r.closed) \ d.closed
                  /\ proxies' = [proxies EXCEPT ![x] = gone]
                  /\ last' = [Op("Unref", proxies[x].description, FALSE,
                                 rid[t], r)
                                EXCEPT !.outcome = "deleted",
                                       !.closed = r.closed \cup d.closed,
                                       !.assertFailed = d.assertFailed]
    /\ UNCHANGED <<rid, pins, held>>
    /\ UNCHANGED ext

\* Mutant of RefUnderlyingDataset: the entry of a failed open is not
\* unreferenced.
RefUnderlyingDataset_NoUnref(t, x) ==
    /\ status = "run"
    /\ proxies[x].alive
    /\ singleton
    /\ Len(held[t]) < MaxNest
    /\ \E r \in RefOutcomes(pool, proxies[x].description, proxies[x].bShared,
                            proxies[x].responsiblePID, openDS) :
         LET cacheEntry == r.ret
             ok == StatusAfter(r.outcome) = "run"
             poDS == IF cacheEntry # NULL THEN r.pool.entry[cacheEntry].poDS
                     ELSE NULL
         IN  /\ status' = StatusAfter(r.outcome)
             /\ build' = BuildAfter(r)
             /\ openDS' = OpenAfter(openDS, r)
             /\ rid' = IF ok THEN rid
                       ELSE [rid EXCEPT ![t] = proxies[x].responsiblePID]
             /\ proxies' = IF ok THEN [proxies EXCEPT ![x].cacheEntry = cacheEntry]
                           ELSE proxies
             /\ pool' = r.pool
             /\ held' = IF ok /\ poDS # NULL
                        THEN [held EXCEPT ![t] = Append(@, [p |-> x, ds |-> poDS])]
                        ELSE held
             /\ last' = Op("RefDataset", proxies[x].description,
                           proxies[x].bShared, proxies[x].responsiblePID, r)
    /\ UNCHANGED <<singleton, pins>>
    /\ UNCHANGED ext

\* GDALProxyPoolDataset::RefUnderlyingDataset run by thread t: it sets its
\* responsible PID slot to the proxy's, calls RefDataset and puts the slot
\* back; the returned entry is stored in the proxy's cacheEntry, and either
\* its dataset is returned (a bracket opens) or, the open having failed,
\* the entry is unreferenced and NULL returned.
RefUnderlyingDataset(t, x) ==
    /\ status = "run"
    /\ proxies[x].alive
    /\ singleton
    /\ Len(held[t]) < MaxNest
    /\ \E r \in RefOutcomes(pool, proxies[x].description, proxies[x].bShared,
                            proxies[x].responsiblePID, openDS) :
         LET cacheEntry == r.ret
             ok == StatusAfter(r.outcome) = "run"
             poDS == IF cacheEntry # NULL THEN r.pool.entry[cacheEntry].poDS
                     ELSE NULL
         IN  /\ status' = StatusAfter(r.outcome)
             /\ build' = BuildAfter(r)
             /\ openDS' = OpenAfter(openDS, r)
             /\ rid' = IF ok THEN rid
                       ELSE [rid EXCEPT ![t] = proxies[x].responsiblePID]
             /\ proxies' = IF ok THEN [proxies EXCEPT ![x].cacheEntry = cacheEntry]
                           ELSE proxies
             /\ pool' = IF ok /\ cacheEntry # NULL /\ poDS = NULL
                        THEN [r.pool EXCEPT !.entry[cacheEntry].refCount = @ - 1]
                        ELSE r.pool
             /\ held' = IF ok /\ poDS # NULL
                        THEN [held EXCEPT ![t] = Append(@, [p |-> x, ds |-> poDS])]
                        ELSE held
             /\ last' = Op("RefDataset", proxies[x].description,
                           proxies[x].bShared, proxies[x].responsiblePID, r)
    /\ UNCHANGED <<singleton, pins>>
    /\ UNCHANGED ext

\* GDALProxyPoolDataset::UnrefUnderlyingDataset: thread t closes its
\* innermost bracket, handing back the dataset the bracket got.
UnrefUnderlyingDataset(t) ==
    /\ status = "run"
    /\ held[t] # <<>>
    /\ LET b == held[t][Len(held[t])]
           cacheEntry == proxies[b.p].cacheEntry
           failed == cacheEntry # NULL /\ pool.entry[cacheEntry].poDS # b.ds
       IN  \E end \in (IF failed /\ build = "any" THEN {"abort"} ELSE {})
                      \cup {"run"} :
             /\ status' = end
             /\ build' = IF failed /\ end = "run" THEN "release" ELSE build
             /\ held' = [held EXCEPT ![t] = SubSeq(@, 1, Len(@) - 1)]
             /\ IF end = "run" /\ cacheEntry # NULL
                   /\ pool.entry[cacheEntry].poDS # NULL
                THEN /\ pool' = [pool EXCEPT
                                   !.entry[cacheEntry].refCount = @ - 1]
                     /\ last' = [NoOp EXCEPT !.op = "UnrefDataset",
                                             !.ret = cacheEntry,
                                             !.assertFailed = failed]
                ELSE /\ pool' = pool
                     /\ last' = [NoOp EXCEPT !.op = "UnrefUnderlyingDataset",
                                             !.assertFailed = failed]
    /\ UNCHANGED <<singleton, rid, openDS, pins, proxies>>
    /\ UNCHANGED ext

ProxyNext ==
    \/ \E t \in Threads, x \in ProxyIds, f \in Paths, b \in BOOLEAN :
          ProxyCreate(t, x, f, b)
    \/ \E t \in Threads, x \in ProxyIds : ProxyDestroy(t, x)
    \/ \E t \in Threads, x \in ProxyIds : RefUnderlyingDataset(t, x)
    \/ \E t \in Threads : UnrefUnderlyingDataset(t)

ProxySpec == ProxyInit /\ [][ProxyNext]_vars

\* ---------------------------------------------------------- the accessors
\* What the constructor and the accessors are called with.
\* The proxies are made by one thread and used by all of them.
Creators == {1}
AccessorPaths == {"A", "B"}
Projections == {NullStr, "X"}
GeoTransforms == {NoGeoTransform, <<10, 2, 0, 20, 0, -2>>}
Domains == {NullStr}
Names == {"N"}

\* The underlying dataset of a name: what its own accessors return.
SrcProjection(pszFileName) == "srs of " \o pszFileName
SrcGeoTransform(pszFileName) == <<1, 1, 0, 1, 0, 1>>
SrcMetadata(pszFileName, pszDomain) == <<pszFileName, pszDomain>>
SrcMetadataItem(pszFileName, pszName, pszDomain) ==
    pszName \o " of " \o pszFileName

\* CPLStrdup: a copy of the string, of the empty string for NULL.
CPLStrdup(str) == IF str = NullStr THEN EmptyName ELSE str

\* Mutant of Constructed: the test of padfGeoTransform is inverted, and NULL
\* is read as the default.
Constructed_GeoTransformTestInverted(pszProjectionRefIn, padfGeoTransform) ==
    [pszProjectionRef |-> IF pszProjectionRefIn # NullStr
                          THEN NullStr
                          ELSE CPLStrdup(pszProjectionRefIn),
     bHasSrcProjection |-> ~(pszProjectionRefIn # NullStr),
     adfGeoTransform |-> IF padfGeoTransform = NoGeoTransform
                         THEN DefaultGeoTransform
                         ELSE DefaultGeoTransform,
     bHasSrcGeoTransform |-> padfGeoTransform = NoGeoTransform,
     metadataSet |-> {}, metadataItemSet |-> {}]

\* Lines 567-591 of the constructor.
Constructed(pszProjectionRefIn, padfGeoTransform) ==
    [pszProjectionRef |-> IF pszProjectionRefIn # NullStr
                          THEN NullStr
                          ELSE CPLStrdup(pszProjectionRefIn),
     bHasSrcProjection |-> ~(pszProjectionRefIn # NullStr),
     adfGeoTransform |-> IF padfGeoTransform # NoGeoTransform
                         THEN padfGeoTransform
                         ELSE DefaultGeoTransform,
     bHasSrcGeoTransform |-> padfGeoTransform # NoGeoTransform,
     metadataSet |-> {}, metadataItemSet |-> {}]

\* CPLHashSetInsert: elt replaces the elements of the table that the
\* table's equality function finds equal to it (same).
CPLHashSetInsert(set, elt, same) == (set \ same) \cup {elt}

\* equal_func_get_metadata and equal_func_get_metadata_item.
equal_func_get_metadata(elt1, elt2) == elt1.pszDomain = elt2.pszDomain
equal_func_get_metadata_item(elt1, elt2) ==
    elt1.pszName = elt2.pszName /\ elt1.pszDomain = elt2.pszDomain

\* GDALProxyPoolDatasetCreate run by thread t: the constructor, with the
\* projection and the geotransform it is given.
GDALProxyPoolDatasetCreate(t, x, pszSourceDatasetDescription, bSharedIn, pszProjectionRefIn, padfGeoTransform) ==
    /\ status = "run"
    /\ ~proxies[x].alive /\ ~proxies[x].dead
    /\ singleton' = TRUE
    /\ pool' = Ref(singleton, pool)
    /\ proxies' = [proxies EXCEPT ![x] =
                      [alive |-> TRUE, dead |-> FALSE,
                       description |-> pszSourceDatasetDescription,
                       bShared |-> bSharedIn,
                       responsiblePID |-> rid[t],
                       cacheEntry |-> NULL]]
    /\ derived' = [derived EXCEPT ![x] =
                      Constructed(pszProjectionRefIn, padfGeoTransform)]
    /\ last' = [NoOp EXCEPT !.op = "Ref", !.rid = rid[t]]
    /\ out' = [NoOut EXCEPT !.op = "Create", !.x = x,
                           !.str = pszProjectionRefIn,
                           !.gt = padfGeoTransform]
    /\ UNCHANGED <<rid, openDS, pins, held, build, status, window,
                   suppressed, config, access,
                   bands>>

\* An accessor that answers from the proxy's own fields: the pool is not
\* called.
Answer(o) ==
    /\ out' = o
    /\ last' = [NoOp EXCEPT !.op = o.op]
    /\ UNCHANGED <<singleton, pool, rid, openDS, pins, proxies, held, build,
                   status, window, suppressed, config, access,
                   bands>>

\* An accessor of thread t that asks the underlying dataset, between
\* RefUnderlyingDataset and UnrefUnderlyingDataset: got is what it returns
\* and the proxy's fields afterwards when the underlying dataset is there,
\* none what it returns when there is none.
Delegate(t, x, none, got) ==
    /\ singleton
    /\ \E r \in RefOutcomes(pool, proxies[x].description, proxies[x].bShared,
                            proxies[x].responsiblePID, openDS) :
         LET cacheEntry == r.ret
             ok == StatusAfter(r.outcome) = "run"
             poDS == IF cacheEntry # NULL THEN r.pool.entry[cacheEntry].poDS
                     ELSE NULL
         IN  /\ status' = StatusAfter(r.outcome)
             /\ build' = BuildAfter(r)
             /\ openDS' = OpenAfter(openDS, r)
             /\ rid' = IF ok THEN rid
                       ELSE [rid EXCEPT ![t] = proxies[x].responsiblePID]
             /\ proxies' = IF ok THEN [proxies EXCEPT ![x].cacheEntry = cacheEntry]
                           ELSE proxies
             /\ pool' = IF ok /\ cacheEntry # NULL
                        THEN [r.pool EXCEPT !.entry[cacheEntry].refCount = @ - 1]
                        ELSE r.pool
             /\ derived' = IF ok /\ poDS # NULL
                           THEN [derived EXCEPT ![x] = got.derived]
                           ELSE derived
             /\ out' = IF ok /\ poDS # NULL THEN got.out ELSE none
             /\ last' = Op("RefDataset", proxies[x].description,
                           proxies[x].bShared, proxies[x].responsiblePID, r)
    /\ UNCHANGED <<singleton, pins, held, window, suppressed, config, access,
                   bands>>

\* GDALProxyPoolDataset::GetProjectionRef; without the overlay it is
\* GDALProxyDataset::GetProjectionRef, which asks the underlying dataset.
GetProjectionRef(t, x) ==
    /\ status = "run"
    /\ proxies[x].alive
    /\ LET o == [NoOut EXCEPT !.op = "GetProjectionRef", !.x = x]
           f == proxies[x].description
       IN  IF derived[x].bHasSrcProjection
           THEN /\ Answer([o EXCEPT !.str = derived[x].pszProjectionRef])
                /\ UNCHANGED derived
           ELSE Delegate(t, x, [o EXCEPT !.refs = 1],
                         [derived |-> derived[x],
                          out |-> [o EXCEPT !.refs = 1,
                                            !.str = SrcProjection(f)]])

\* GDALProxyPoolDataset::GetGeoTransform; without the overlay it is
\* GDALProxyDataset::GetGeoTransform, which asks the underlying dataset.
GetGeoTransform(t, x) ==
    /\ status = "run"
    /\ proxies[x].alive
    /\ LET o == [NoOut EXCEPT !.op = "GetGeoTransform", !.x = x]
           f == proxies[x].description
       IN  IF derived[x].bHasSrcGeoTransform
           THEN /\ Answer([o EXCEPT !.gt = derived[x].adfGeoTransform])
                /\ UNCHANGED derived
           ELSE Delegate(t, x, [o EXCEPT !.refs = 1],
                         [derived |-> derived[x],
                          out |-> [o EXCEPT !.refs = 1,
                                            !.gt = SrcGeoTransform(f)]])

\* GDALProxyPoolDataset::GetMetadata: the table is made if there is none,
\* then the underlying dataset is referenced and asked, and a copy of its
\* answer is inserted and returned.  memo: whether the table held an element
\* for the domain when the call started.
GetMetadata(t, x, pszDomain) ==
    /\ status = "run"
    /\ proxies[x].alive
    /\ LET o == [NoOut EXCEPT
                   !.op = "GetMetadata", !.x = x, !.pszDomain = pszDomain,
                   !.refs = 1,
                   !.memo = \E e \in derived[x].metadataSet :
                               e.pszDomain = pszDomain]
           f == proxies[x].description
           pElt == [pszDomain |-> pszDomain,
                    papszMetadata |-> SrcMetadata(f, pszDomain)]
           same == {e \in derived[x].metadataSet :
                      equal_func_get_metadata(e, pElt)}
       IN  Delegate(t, x, o,
                    [derived |-> [derived[x] EXCEPT !.metadataSet =
                                     CPLHashSetInsert(@, pElt, same)],
                     out |-> [o EXCEPT !.list = pElt.papszMetadata]])

\* GDALProxyPoolDataset::GetMetadataItem, in the same way.
GetMetadataItem(t, x, pszName, pszDomain) ==
    /\ status = "run"
    /\ proxies[x].alive
    /\ LET o == [NoOut EXCEPT
                   !.op = "GetMetadataItem", !.x = x, !.pszName = pszName,
                   !.pszDomain = pszDomain, !.refs = 1,
                   !.memo = \E e \in derived[x].metadataItemSet :
                               e.pszName = pszName /\ e.pszDomain = pszDomain]
           f == proxies[x].description
           pElt == [pszName |-> pszName, pszDomain |-> pszDomain,
                    pszMetadataItem |-> SrcMetadataItem(f, pszName, pszDomain)]
           same == {e \in derived[x].metadataItemSet :
                      equal_func_get_metadata_item(e, pElt)}
       IN  Delegate(t, x, o,
                    [derived |-> [derived[x] EXCEPT !.metadataItemSet =
                                     CPLHashSetInsert(@, pElt, same)],
                     out |-> [o EXCEPT !.str = pElt.pszMetadataItem]])

AccessorNext ==
    \/ \E t \in Creators, x \in ProxyIds, f \in AccessorPaths, b \in BOOLEAN,
          pr \in Projections, gt \in GeoTransforms :
          GDALProxyPoolDatasetCreate(t, x, f, b, pr, gt)
    \/ \E t \in Threads, x \in ProxyIds : GetProjectionRef(t, x)
    \/ \E t \in Threads, x \in ProxyIds : GetGeoTransform(t, x)
    \/ \E t \in Threads, x \in ProxyIds, d \in Domains : GetMetadata(t, x, d)
    \/ \E t \in Threads, x \in ProxyIds, n \in Names, d \in Domains :
          GetMetadataItem(t, x, n, d)

AccessorSpec == ProxyInit /\ [][AccessorNext]_vars

\* ------------------------------------------- inside GDALOpenEx and GDALClose
\* The pool calls GDALOpenEx and GDALClose with the mutex held, which is
\* recursive: until the call returns only the calling thread gets into the
\* pool, and what it does there (the driver makes or deletes proxies of its
\* own) runs with refCountOfDisableRefCount raised.  window says which call
\* the pool is inside of: "open" (GDALOpenEx of _RefDataset), "evict"
\* (GDALClose of _RefDataset), "close" (GDALClose of _CloseDataset, called by
\* the destructor of the proxy x) or "delete" (GDALClose of
\* ~GDALDatasetPool, rest being the entries it has still to close).
WindowPaths == {"A", "B"}
\* The thread that uses and deletes the proxies; any thread makes them.
Callers == {1}

WinIdle == window.kind = "none"

\* Mutant of RIDDuringRef: GDALSetResponsiblePIDForCurrentThread of line 669
\* is missing.
RIDDuringRef_NotSet(t, x) == rid[t]

\* Line 669: the responsible PID thread t runs RefDataset under for proxy x.
RIDDuringRef(t, x) == proxies[x].responsiblePID

\* Mutant of RIDDuringClose: the slot is left as it is.
RIDDuringClose_NotSet(t, e) == rid[t]

\* Lines 144, 254 and 337: the responsible PID thread t closes the dataset
\* of entry e under.
RIDDuringClose(t, e) == pool.entry[e].responsiblePID

\* Line 672: the responsible PID of thread t after RefDataset has returned.
RIDAfterRef(t, curResponsiblePID) == curResponsiblePID

\* The constructor run by thread t, inside a GDALOpenEx or a GDALClose (of
\* _RefDataset or _CloseDataset) of its own or outside any.
Construct(t, x, pszSourceDatasetDescription, bSharedIn) ==
    /\ status = "run"
    /\ \/ WinIdle
       \/ window.t = t /\ window.kind \in {"open", "evict", "close"}
    /\ ~proxies[x].alive /\ ~proxies[x].dead
    /\ singleton' = TRUE
    /\ pool' = Ref(singleton, pool)
    /\ proxies' = [proxies EXCEPT ![x] =
                      [alive |-> TRUE, dead |-> FALSE,
                       description |-> pszSourceDatasetDescription,
                       bShared |-> bSharedIn,
                       responsiblePID |-> rid[t],
                       cacheEntry |-> NULL]]
    /\ suppressed' = [suppressed EXCEPT ![x] =
                         singleton /\ pool.refCountOfDisableRefCount > 0]
    /\ last' = [NoOp EXCEPT !.op = "Ref", !.rid = rid[t]]
    /\ UNCHANGED <<rid, openDS, pins, held, build, status, derived, out,
                   window, config, access,
                   bands>>

\* Lines 672-680: RefDataset has come back to RefUnderlyingDataset of thread
\* t on proxy x with result r (or has not come back).
Returned(t, x, r, curResponsiblePID) ==
    LET cacheEntry == r.ret
        ok == StatusAfter(r.outcome) = "run"
        poDS == IF cacheEntry # NULL THEN r.pool.entry[cacheEntry].poDS
                ELSE NULL
    IN  /\ status' = StatusAfter(r.outcome)
        /\ build' = BuildAfter(r)
        /\ rid' = IF ok
                  THEN [rid EXCEPT ![t] = RIDAfterRef(t, curResponsiblePID)]
                  ELSE [rid EXCEPT ![t] = RIDDuringRef(t, x)]
        /\ proxies' = IF ok THEN [proxies EXCEPT ![x].cacheEntry = cacheEntry]
                      ELSE proxies
        /\ pool' = IF ok /\ cacheEntry # NULL /\ poDS = NULL
                   THEN [r.pool EXCEPT !.entry[cacheEntry].refCount = @ - 1]
                   ELSE r.pool
        /\ held' = IF ok /\ poDS # NULL
                   THEN [held EXCEPT ![t] = Append(@, [p |-> x, ds |-> poDS])]
                   ELSE held
        /\ last' = Op("RefDataset", proxies[x].description,
                      proxies[x].bShared, proxies[x].responsiblePID, r)

\* Mutant of EnterOpen: refCountOfDisableRefCount is not raised.
EnterOpen_NotDisabled(t, x, r, curResponsiblePID) ==
    /\ pool' = r.pool
    /\ build' = BuildAfter(r)
    /\ window' = [NoWindow EXCEPT
                    !.kind = "open", !.t = t, !.x = x, !.cur = r.ret,
                    !.outcome = r.outcome,
                    !.responsiblePID = RIDDuringRef(t, x),
                    !.curResponsiblePID = curResponsiblePID]
    /\ last' = [NoOp EXCEPT !.op = "GDALOpenEx",
                           !.path = proxies[x].description, !.ret = r.ret,
                           !.assertFailed = r.assertFailed]
    /\ UNCHANGED <<proxies, held, status>>

\* _RefDataset has reached GDALOpenEx (line 311) for the entry r.ret.
EnterOpen(t, x, r, curResponsiblePID) ==
    /\ pool' = [r.pool EXCEPT !.refCountOfDisableRefCount = @ + 1]
    /\ build' = BuildAfter(r)
    /\ window' = [NoWindow EXCEPT
                    !.kind = "open", !.t = t, !.x = x, !.cur = r.ret,
                    !.outcome = r.outcome,
                    !.responsiblePID = RIDDuringRef(t, x),
                    !.curResponsiblePID = curResponsiblePID]
    /\ last' = [NoOp EXCEPT !.op = "GDALOpenEx",
                           !.path = proxies[x].description, !.ret = r.ret,
                           !.assertFailed = r.assertFailed]
    /\ UNCHANGED <<proxies, held, status>>

\* RefDataset (lines 438-445) or CloseDataset (lines 458-465) when singleton
\* is NULL: the method is called on a null pointer.
NoSingleton(t, x, op) ==
    /\ status' = "abort"
    /\ last' = [NoOp EXCEPT !.op = op, !.path = proxies[x].description,
                           !.outcome = "segv"]
    /\ UNCHANGED <<pool, proxies, held, build, window, openDS>>

\* GDALProxyPoolDataset::RefUnderlyingDataset called by thread t, up to the
\* return of RefDataset or to its first call of GDALClose or GDALOpenEx.
RefUnderlyingDatasetCall(t, x) ==
    /\ status = "run"
    /\ WinIdle
    /\ proxies[x].alive
    /\ Len(held[t]) < MaxNest
    /\ IF ~singleton
       THEN /\ NoSingleton(t, x, "RefDataset")
            /\ rid' = [rid EXCEPT ![t] = RIDDuringRef(t, x)]
       ELSE
       LET pid == RIDDuringRef(t, x)
           z == ScanRef(pool, pool.firstEntry, proxies[x].description,
                        proxies[x].bShared, pid, NULL, {}).lastZero
           r0 == _RefDataset(pool, proxies[x].description,
                             proxies[x].bShared, pid, NULL, FALSE)
       IN  IF r0.closed # {}
           THEN /\ pool' = [pool EXCEPT
                              !.entry[z].pszFileName = EmptyName,
                              !.refCountOfDisableRefCount = @ + 1]
                /\ rid' = [rid EXCEPT ![t] = RIDDuringClose(t, z)]
                /\ window' = [NoWindow EXCEPT
                                !.kind = "evict", !.t = t, !.x = x,
                                !.cur = z, !.ds = pool.entry[z].poDS,
                                !.responsiblePID = pid,
                                !.curResponsiblePID = rid[t]]
                /\ last' = [NoOp EXCEPT !.op = "GDALClose",
                                       !.path = proxies[x].description,
                                       !.ret = z]
                /\ UNCHANGED <<proxies, held, status, build, openDS>>
           ELSE \E r \in {r0} \cup
                         (IF r0.assertFailed /\ build = "any"
                          THEN {_RefDataset(pool, proxies[x].description,
                                            proxies[x].bShared, pid, NULL,
                                            TRUE)}
                          ELSE {}) :
                  IF r.opened
                  THEN /\ EnterOpen(t, x, r, rid[t])
                       /\ rid' = [rid EXCEPT ![t] = pid]
                       /\ UNCHANGED openDS
                  ELSE /\ Returned(t, x, r, rid[t])
                       /\ UNCHANGED <<window, openDS>>
    /\ UNCHANGED <<singleton, pins, derived, out, suppressed, config, access,
                   bands>>

\* GDALOpenEx returns ds to _RefDataset (lines 311-315), which returns to
\* RefUnderlyingDataset.
GDALOpenExReturns(ds) ==
    /\ status = "run"
    /\ window.kind = "open"
    /\ ds \in GDALOpenEx(openDS)
    /\ LET r == Result([pool EXCEPT
                          !.entry[window.cur].poDS = ds,
                          !.refCountOfDisableRefCount = @ - 1],
                       window.cur, window.outcome, {}, TRUE, FALSE)
       IN  Returned(window.t, window.x, r, window.curResponsiblePID)
    /\ openDS' = openDS \cup ({ds} \ {NULL})
    /\ window' = NoWindow
    /\ UNCHANGED <<singleton, pins, derived, out, suppressed, config, access,
                   bands>>

\* The entries ~GDALDatasetPool has to close, in the order it meets them.
ToClose(p) == SelectSeq(Walk(p), LAMBDA e : p.entry[e].poDS # NULL)

\* ~GDALDatasetPool has closed and freed everything, and Unref sets
\* singleton to NULL; the destructor of proxy x is over.
Deleted(x) ==
    /\ singleton' = FALSE
    /\ pool' = NewPool(MaxDatasetPoolSize)
    /\ proxies' = [proxies EXCEPT ![x] = [NoProxy EXCEPT !.dead = TRUE]]
    /\ window' = NoWindow
    /\ status' = "run"

\* The destructor of proxy x, run by thread t, after its CloseDataset: Unref,
\* which deletes the pool p when it drops the last reference; the pool's
\* destructor then closes the datasets one by one.  slot is the responsible
\* PID of t at this point.
Unreferenced(t, x, p, slot) ==
    IF ~UnrefDeletes(p)
    THEN /\ pool' = Unref(p)
         /\ proxies' = [proxies EXCEPT ![x] = [NoProxy EXCEPT !.dead = TRUE]]
         /\ window' = NoWindow
         /\ last' = [NoOp EXCEPT !.op = "Unref",
                                !.path = proxies[x].description]
         /\ UNCHANGED <<singleton, build, status>>
    ELSE LET d == Destroy(p)
             w == ToClose(p)
         IN  \E end \in (IF d.assertFailed /\ build = "any"
                          THEN {"abort"} ELSE {})
                         \cup (IF d.freedTwice
                               THEN {"abort", "hang", "run"} ELSE {"run"}) :
               /\ build' = IF d.assertFailed /\ end # "abort"
                           THEN "release" ELSE build
               /\ last' = [NoOp EXCEPT !.op = "Unref",
                                      !.path = proxies[x].description,
                                      !.outcome = "deleted",
                                      !.assertFailed = d.assertFailed]
               /\ IF end # "run"
                  THEN /\ status' = end
                       /\ pool' = p
                       /\ UNCHANGED <<singleton, proxies, window>>
                  ELSE IF w = <<>>
                  THEN /\ Deleted(x)
                  ELSE /\ pool' = [p EXCEPT !.refCount = @ - 1]
                       /\ window' = [NoWindow EXCEPT
                                       !.kind = "delete", !.t = t, !.x = x,
                                       !.cur = Head(w),
                                       !.ds = p.entry[Head(w)].poDS,
                                       !.responsiblePID = slot,
                                       !.curResponsiblePID = slot,
                                       !.rest = Tail(w)]
                       /\ UNCHANGED <<singleton, proxies, status>>

\* The responsible PIDs when Unreferenced(t, x, p, slot) has run:
\* ~GDALDatasetPool sets that of t for its first GDALClose (line 144).
SlotsUnreferenced(t, slot) ==
    IF window'.kind = "delete"
    THEN [rid EXCEPT ![t] = RIDDuringClose(t, window'.cur)]
    ELSE [rid EXCEPT ![t] = slot]

\* GDALProxyPoolDataset::~GDALProxyPoolDataset called by thread t on a proxy
\* nothing is using, up to its end or to its first call of GDALClose.
ProxyDestroyCall(t, x) ==
    /\ status = "run"
    /\ WinIdle
    /\ proxies[x].alive
    /\ Unused(x)
    /\ IF ~singleton
       THEN IF ~proxies[x].bShared
            THEN /\ NoSingleton(t, x, "CloseDataset")
                 /\ UNCHANGED <<singleton, rid>>
            ELSE \* Unref, lines 397-401: CPLAssert(0); return
                 \E end \in (IF build = "any" THEN {"abort"} ELSE {})
                             \cup {"run"} :
                   /\ status' = end
                   /\ build' = IF end = "run" THEN "release" ELSE build
                   /\ proxies' = IF end = "run"
                                 THEN [proxies EXCEPT
                                         ![x] = [NoProxy EXCEPT !.dead = TRUE]]
                                 ELSE proxies
                   /\ last' = [NoOp EXCEPT !.op = "Unref",
                                          !.path = proxies[x].description,
                                          !.assertFailed = TRUE]
                   /\ UNCHANGED <<singleton, pool, rid, window>>
       ELSE
       LET r == IF proxies[x].bShared
                THEN Result(pool, NULL, "none", {}, FALSE, FALSE)
                ELSE _CloseDataset(pool, proxies[x].description)
       IN  CASE r.outcome = "hang" ->
                  /\ status' = "hang"
                  /\ last' = Op("CloseDataset", proxies[x].description,
                                FALSE, rid[t], r)
                  /\ UNCHANGED <<singleton, pool, proxies, build, window,
                                 rid>>
             [] r.outcome = "closed" ->
                  /\ pool' = [pool EXCEPT !.refCountOfDisableRefCount = @ + 1]
                  /\ rid' = [rid EXCEPT ![t] = RIDDuringClose(t, r.ret)]
                  /\ window' = [NoWindow EXCEPT
                                  !.kind = "close", !.t = t, !.x = x,
                                  !.cur = r.ret,
                                  !.ds = pool.entry[r.ret].poDS,
                                  !.responsiblePID = rid[t],
                                  !.curResponsiblePID = rid[t]]
                  /\ last' = [NoOp EXCEPT !.op = "GDALClose",
                                         !.path = proxies[x].description,
                                         !.ret = r.ret]
                  /\ UNCHANGED <<singleton, proxies, build, status>>
             [] OTHER ->
                  /\ Unreferenced(t, x, pool, rid[t])
                  /\ rid' = SlotsUnreferenced(t, rid[t])
    /\ UNCHANGED <<openDS, pins, held, derived, out, suppressed, config, access,
                   bands>>

\* GDALClose returns to the pool method that called it.
GDALCloseReturns ==
    /\ status = "run"
    /\ window.kind \in {"evict", "close", "delete"}
    /\ openDS' = openDS \ {window.ds}
    /\ LET t == window.t
           x == window.x
           cur == window.cur
       IN  CASE window.kind = "evict" ->
                  \* lines 258-283, then on to GDALOpenEx
                  LET p1 == [pool EXCEPT !.entry[cur].poDS = NULL,
                                         !.refCountOfDisableRefCount = @ - 1]
                      r0 == RefFull(p1, cur, proxies[x].description,
                                    window.responsiblePID, NULL, FALSE)
                  IN  \E r \in {r0} \cup
                               (IF r0.assertFailed /\ build = "any"
                                THEN {RefFull(p1, cur, proxies[x].description,
                                              window.responsiblePID, NULL,
                                              TRUE)}
                                ELSE {}) :
                        /\ rid' = [rid EXCEPT ![t] = window.responsiblePID]
                        /\ IF r.opened
                           THEN EnterOpen(t, x, r, window.curResponsiblePID)
                           ELSE /\ status' = StatusAfter(r.outcome)
                                /\ build' = BuildAfter(r)
                                /\ pool' = r.pool
                                /\ last' = Op("RefDataset",
                                              proxies[x].description,
                                              proxies[x].bShared,
                                              window.responsiblePID, r)
                                /\ UNCHANGED <<proxies, held, window>>
                        /\ UNCHANGED singleton
             [] window.kind = "close" ->
                  \* lines 341-346, then the rest of the proxy's destructor
                  LET p1 == [pool EXCEPT !.entry[cur].poDS = NULL,
                                         !.entry[cur].pszFileName = EmptyName,
                                         !.refCountOfDisableRefCount = @ - 1]
                  IN  /\ Unreferenced(t, x, p1, window.responsiblePID)
                      /\ rid' = SlotsUnreferenced(t, window.responsiblePID)
                      /\ UNCHANGED held
             [] OTHER ->
                  \* lines 146-150: free the entry, go on to the next
                  /\ IF window.rest = <<>>
                     THEN /\ Deleted(x)
                          /\ rid' = [rid EXCEPT ![t] = window.responsiblePID]
                     ELSE /\ window' = [window EXCEPT
                                          !.cur = Head(window.rest),
                                          !.ds = pool.entry[Head(window.rest)].poDS,
                                          !.rest = Tail(window.rest)]
                          /\ rid' = [rid EXCEPT ![t] =
                                       RIDDuringClose(t, Head(window.rest))]
                          /\ UNCHANGED <<singleton, pool, proxies, status>>
                  /\ last' = [NoOp EXCEPT !.op = "GDALClose", !.ret = cur]
                  /\ UNCHANGED <<build, held>>
    /\ UNCHANGED <<pins, derived, out, suppressed, config, access,
                   bands>>

\* The destructor of proxy y run by the thread that is inside GDALOpenEx or
\* GDALClose.  Its CloseDataset and its Unref get into the pool again; inside
\* ~GDALDatasetPool CloseDataset walks entries that are already freed
\* (undefined behaviour: it aborts or finds nothing); inside _CloseDataset it
\* may find the entry that is being closed and close its dataset a second
\* time (undefined behaviour: it aborts or goes on).
ProxyDestroyNested(y) ==
    /\ status = "run"
    /\ ~WinIdle
    /\ proxies[y].alive
    /\ y # window.x
    /\ Unused(y)
    /\ LET inDelete == window.kind = "delete"
           r == IF proxies[y].bShared \/ inDelete
                THEN Result(pool, NULL, "none", {}, FALSE, FALSE)
                ELSE _CloseDataset(pool, proxies[y].description)
       IN  \E end \in {StatusAfter(r.outcome)} \cup
                      (IF \/ inDelete /\ ~proxies[y].bShared
                          \/ window.ds \in r.closed
                       THEN {"abort"} ELSE {}) :
             /\ status' = end
             /\ pool' = IF end = "run" THEN Unref(r.pool) ELSE r.pool
             /\ openDS' = openDS \ r.closed
             /\ proxies' = IF end = "run"
                           THEN [proxies EXCEPT
                                   ![y] = [NoProxy EXCEPT !.dead = TRUE]]
                           ELSE proxies
             /\ last' = Op("Unref", proxies[y].description, FALSE,
                           rid[window.t], r)
    /\ UNCHANGED <<singleton, rid, pins, held, build, derived, out, window,
                   suppressed, config, access,
                   bands>>

\* GDALProxyPoolDataset::UnrefUnderlyingDataset, outside GDALOpenEx and
\* GDALClose.
UnrefUnderlyingDatasetCall(t) ==
    /\ WinIdle
    /\ UnrefUnderlyingDataset(t)

WindowNext ==
    \/ \E t \in Threads, x \in ProxyIds, f \in WindowPaths, b \in BOOLEAN :
          Construct(t, x, f, b)
    \/ \E t \in Callers, x \in ProxyIds : RefUnderlyingDatasetCall(t, x)
    \/ \E ds \in Ent \cup {NULL} : GDALOpenExReturns(ds)
    \/ \E t \in Callers : UnrefUnderlyingDatasetCall(t)
    \/ \E t \in Callers, x \in ProxyIds : ProxyDestroyCall(t, x)
    \/ GDALCloseReturns
    \/ \E y \in ProxyIds : ProxyDestroyNested(y)

WindowSpec == ProxyInit /\ [][WindowNext]_vars

\* ------------------------------------------------ the configured maxSize
\* Values of GDAL_MAX_DATASET_POOL_SIZE: decimal integers, of which atoi
\* returns the value.
ConfigValues == {-1, 0, 1, 2, 3, 100, 450, 999, 1000, 1001, 5000}

Configs == {NoConfig} \cup {[set |-> TRUE, value |-> v] : v \in ConfigValues}

\* atoi(CPLGetConfigOption(key, default)).
CPLGetConfigOption(cfg, default) == IF cfg.set THEN cfg.value ELSE default

\* Mutant of MaxSizeFor: the range is not tested.
MaxSizeFor_NotTested(cfg) == CPLGetConfigOption(cfg, 100)

\* Lines 363-365 of Ref: l_maxSize.
MaxSizeFor(cfg) ==
    LET l_maxSize == CPLGetConfigOption(cfg, 100)
    IN  IF l_maxSize < 2 \/ l_maxSize > 1000 THEN 100 ELSE l_maxSize

\* GDALDatasetPool::Ref, the pool being made with the configured maxSize.
RefConfigured(sing, p, cfg) ==
    LET q == IF sing THEN p ELSE NewPool(MaxSizeFor(cfg))
    IN  IF q.refCountOfDisableRefCount = 0
        THEN [q EXCEPT !.refCount = @ + 1]
        ELSE q

\* CPLSetConfigOption("GDAL_MAX_DATASET_POOL_SIZE", ...).
CPLSetConfigOption(cfg) ==
    /\ status = "run"
    /\ config' = cfg
    /\ last' = [NoOp EXCEPT !.op = "CPLSetConfigOption"]
    /\ UNCHANGED <<singleton, pool, rid, openDS, pins, proxies, held, build,
                   status, derived, out, window, suppressed, access, bands>>

\* The constructor of a proxy run by thread t, under the configuration.
ConfiguredCreate(t, x, pszSourceDatasetDescription, bSharedIn) ==
    /\ status = "run"
    /\ ~proxies[x].alive /\ ~proxies[x].dead
    /\ singleton' = TRUE
    /\ pool' = RefConfigured(singleton, pool, config)
    /\ proxies' = [proxies EXCEPT ![x] =
                      [alive |-> TRUE, dead |-> FALSE,
                       description |-> pszSourceDatasetDescription,
                       bShared |-> bSharedIn,
                       responsiblePID |-> rid[t],
                       cacheEntry |-> NULL]]
    /\ last' = [NoOp EXCEPT !.op = "Ref", !.rid = rid[t]]
    /\ UNCHANGED <<rid, openDS, pins, held, build, status>>
    /\ UNCHANGED ext

ConfigNext ==
    \/ \E cfg \in Configs : CPLSetConfigOption(cfg)
    \/ \E t \in Creators, x \in ProxyIds, b \in BOOLEAN :
          ConfiguredCreate(t, x, "A", b)
    \/ \E t \in Creators, x \in ProxyIds : ProxyDestroy(t, x)

ConfigSpec == ProxyInit /\ [][ConfigNext]_vars

\* ------------------------------------------- PreventDestroy, ForceDestroy
MaxPrevent == 2

\* GDALDatasetPool::PreventDestroy (lines 372-379): nothing without a
\* singleton, else refCountOfDisableRefCount++.
PreventDestroy ==
    /\ status = "run"
    /\ pool.refCountOfDisableRefCount < MaxPrevent
    /\ pool' = IF singleton
               THEN [pool EXCEPT !.refCountOfDisableRefCount = @ + 1]
               ELSE pool
    /\ last' = [NoOp EXCEPT !.op = "PreventDestroy",
                           !.outcome = IF singleton THEN "counted" ELSE "none"]
    /\ UNCHANGED <<singleton, rid, openDS, pins, proxies, held, build, status>>
    /\ UNCHANGED ext

\* GDALDatasetPool::ForceDestroy (lines 413-424), called when no thread is
\* inside a RefUnderlyingDataset bracket: nothing without a singleton, else
\* refCountOfDisableRefCount--, CPLAssert(refCountOfDisableRefCount == 0),
\* refCount = 0, delete singleton, singleton = NULL.
ForceDestroy ==
    /\ status = "run"
    /\ \A t \in Threads : held[t] = <<>>
    /\ IF ~singleton
       THEN /\ last' = [NoOp EXCEPT !.op = "ForceDestroy", !.outcome = "none"]
            /\ UNCHANGED <<singleton, pool, openDS, build, status>>
       ELSE LET d == Destroy(pool)
                failed == pool.refCountOfDisableRefCount - 1 # 0
                           \/ d.assertFailed
            IN  \E end \in (IF failed /\ build = "any" THEN {"abort"} ELSE {})
                           \cup (IF d.freedTwice
                                 THEN {"abort", "hang", "run"} ELSE {"run"}) :
                  /\ status' = end
                  /\ build' = IF failed /\ end # "abort"
                              THEN "release" ELSE build
                  /\ singleton' = (end # "run")
                  /\ pool' = IF end = "run" THEN NewPool(MaxDatasetPoolSize)
                             ELSE pool
                  /\ openDS' = openDS \ d.closed
                  /\ last' = [NoOp EXCEPT !.op = "ForceDestroy",
                                         !.outcome = "deleted",
                                         !.closed = d.closed,
                                         !.assertFailed = failed]
    /\ UNCHANGED <<rid, pins, proxies, held>>
    /\ UNCHANGED ext

\* The constructor of a proxy; none is made while proxies of a pool that
\* ForceDestroy deleted are still alive.
TeardownCreate(t, x, pszSourceDatasetDescription, bSharedIn) ==
    /\ singleton \/ \A y \in ProxyIds : ~proxies[y].alive
    /\ ProxyCreate(t, x, pszSourceDatasetDescription, bSharedIn)

\* A proxy that outlived its pool is used or destroyed: RefDataset (lines
\* 438-445) and CloseDataset (lines 458-465) call a method on the null
\* singleton; Unref (lines 394-411) fails CPLAssert(0) and returns.
Torn(t, x, use) ==
    /\ status = "run"
    /\ proxies[x].alive
    /\ ~singleton
    /\ Unused(x)
    /\ IF use \/ ~proxies[x].bShared
       THEN /\ status' = "abort"
            /\ last' = [NoOp EXCEPT
                          !.op = IF use THEN "RefDataset" ELSE "CloseDataset",
                          !.path = proxies[x].description,
                          !.outcome = "segv"]
            /\ UNCHANGED <<proxies, build>>
       ELSE \E end \in (IF build = "any" THEN {"abort"} ELSE {}) \cup {"run"} :
              /\ status' = end
              /\ build' = IF end = "run" THEN "release" ELSE build
              /\ proxies' = IF end = "run"
                            THEN [proxies EXCEPT
                                    ![x] = [NoProxy EXCEPT !.dead = TRUE]]
                            ELSE proxies
              /\ last' = [NoOp EXCEPT !.op = "Unref",
                                     !.path = proxies[x].description,
                                     !.assertFailed = TRUE]
    /\ UNCHANGED <<singleton, pool, rid, openDS, pins, held>>
    /\ UNCHANGED ext

TeardownNext ==
    \/ PreventDestroy
    \/ ForceDestroy
    \/ \E t \in Callers, x \in ProxyIds, f \in WindowPaths, b \in BOOLEAN :
          TeardownCreate(t, x, f, b)
    \/ \E t \in Callers, x \in ProxyIds : singleton /\ ProxyDestroy(t, x)
    \/ \E t \in Callers, x \in ProxyIds : RefUnderlyingDataset(t, x)
    \/ \E t \in Callers : UnrefUnderlyingDataset(t)
    \/ \E t \in Callers, x \in ProxyIds, use \in BOOLEAN : Torn(t, x, use)

TeardownSpec == ProxyInit /\ [][TeardownNext]_vars

\* -------------------------------------------------------------- eAccess
GA_ReadOnly == "GA_ReadOnly"

GA_Update == "GA_Update"

GDALAccess == {GA_ReadOnly, GA_Update}

\* Line 310: the open flag GDALOpenEx gets for eAccess.
nFlag(eAccess) ==
    IF eAccess = GA_Update THEN "GDAL_OF_UPDATE" ELSE "GDAL_OF_READONLY"

\* Mutant of _RefDatasetAs: an entry whose dataset was opened with another
\* flag than eAccess asks for does not match.
_RefDatasetAs_KeyedByAccess(p, pszFileName, eAccess, bShared, responsiblePID, ds, debug) ==
    LET other(e) == /\ p.entry[e].pszFileName = pszFileName
                    /\ p.entry[e].poDS # NULL
                    /\ access.of[p.entry[e].poDS] # nFlag(eAccess)
        masked == [p EXCEPT !.entry = [e \in Ent |->
                     IF other(e) THEN [p.entry[e] EXCEPT !.pszFileName = "?"]
                     ELSE p.entry[e]]]
        r == _RefDataset(masked, pszFileName, bShared, responsiblePID, ds, debug)
    IN  [r EXCEPT !.pool.entry = [e \in Ent |->
                     IF r.pool.entry[e].pszFileName = "?"
                     THEN [r.pool.entry[e] EXCEPT !.pszFileName = pszFileName]
                     ELSE r.pool.entry[e]]]

\* GDALDatasetPool::_RefDataset with its eAccess parameter, which the scan
\* (lines 198-236) does not read: it goes into nFlag for GDALOpenEx only.
_RefDatasetAs(p, pszFileName, eAccess, bShared, responsiblePID, ds, debug) ==
    _RefDataset(p, pszFileName, bShared, responsiblePID, ds, debug)

\* GDALDatasetPool::_CloseDataset with its eAccess parameter, CPL_UNUSED.
_CloseDatasetAs(p, pszFileName, eAccess) == _CloseDataset(p, pszFileName)

\* RefOutcomes for a call with eAccess.
RefOutcomesAs(p, pszFileName, eAccess, bShared, responsiblePID, open) ==
    LET r0 == _RefDatasetAs(p, pszFileName, eAccess, bShared, responsiblePID,
                            NULL, FALSE)
        opens == IF r0.opened
                 THEN {_RefDatasetAs(p, pszFileName, eAccess, bShared,
                                     responsiblePID, ds, FALSE) :
                         ds \in GDALOpenEx(open \ r0.closed)}
                 ELSE {r0}
        aborts == IF r0.assertFailed /\ build = "any"
                  THEN {_RefDatasetAs(p, pszFileName, eAccess, bShared,
                                      responsiblePID, NULL, TRUE)}
                  ELSE {}
    IN  opens \cup aborts

\* What each open dataset was opened with, after a call with result r: the
\* dataset the call opened got nFlag(eAccess), those it closed are gone.
AccessAfter(r, eAccess) ==
    LET got == IF r.ret # NULL THEN r.pool.entry[r.ret].poDS ELSE NULL
    IN  [eAccess |-> eAccess,
         of |-> [d \in Ent |->
                   IF r.opened /\ got = d THEN nFlag(eAccess)
                   ELSE IF d \in r.closed THEN NoAccess
                   ELSE access.of[d]]]

\* GDALDatasetPool::RefDataset(pszFileName, eAccess, ..., bShared) called by
\* thread t.
RefDatasetAs(t, pszFileName, eAccess, bShared) ==
    /\ status = "run"
    /\ singleton
    /\ \E r \in RefOutcomesAs(pool, pszFileName, eAccess, bShared, rid[t],
                              openDS) :
         /\ r.ret # NULL => pins[r.ret] < MaxPins
         /\ pool' = r.pool
         /\ status' = StatusAfter(r.outcome)
         /\ build' = BuildAfter(r)
         /\ openDS' = OpenAfter(openDS, r)
         /\ pins' = IF r.ret # NULL
                    THEN [pins EXCEPT ![r.ret] = @ + 1]
                    ELSE pins
         /\ last' = Op("RefDataset", pszFileName, bShared, rid[t], r)
         /\ access' = AccessAfter(r, eAccess)
    /\ UNCHANGED <<singleton, rid, proxies, held>>
    /\ UNCHANGED <<derived, out, window, suppressed, config, bands>>

\* GDALDatasetPool::CloseDataset(pszFileName, eAccess) called by thread t.
CloseDatasetAs(t, pszFileName, eAccess) ==
    /\ status = "run"
    /\ singleton
    /\ LET r == _CloseDatasetAs(pool, pszFileName, eAccess)
       IN  /\ pool' = r.pool
           /\ status' = StatusAfter(r.outcome)
           /\ openDS' = openDS \ r.closed
           /\ last' = Op("CloseDataset", pszFileName, FALSE, rid[t], r)
           /\ access' = AccessAfter(r, eAccess)
    /\ UNCHANGED <<singleton, rid, pins, proxies, held, build>>
    /\ UNCHANGED <<derived, out, window, suppressed, config, bands>>

AccessNext ==
    \/ \E t \in Threads, f \in WindowPaths, a \in GDALAccess, b \in BOOLEAN :
          RefDatasetAs(t, f, a, b)
    \/ \E e \in Ent : UnrefDataset(e)
    \/ \E t \in Callers, f \in WindowPaths, a \in GDALAccess :
          CloseDatasetAs(t, f, a)

AccessSpec == Init /\ [][AccessNext]_vars

\* ------------------------------------------------- writes through the proxy
\* GDALProxyDataset::SetProjection and GDALProxyDataset::SetGeoTransform
\* run by thread t on a proxy whose fields have become d: the write is
\* handed to the underlying dataset between RefUnderlyingDataset and
\* UnrefUnderlyingDataset, or to nobody when there is none.  The source is
\* opened read-only and what it answers does not change.
Forward(t, x, o, d) ==
    /\ singleton
    /\ derived' = [derived EXCEPT ![x] = d]
    /\ out' = o
    /\ \E r \in RefOutcomes(pool, proxies[x].description, proxies[x].bShared,
                            proxies[x].responsiblePID, openDS) :
         LET cacheEntry == r.ret
             ok == StatusAfter(r.outcome) = "run"
         IN  /\ status' = StatusAfter(r.outcome)
             /\ build' = BuildAfter(r)
             /\ openDS' = OpenAfter(openDS, r)
             /\ rid' = IF ok THEN rid
                       ELSE [rid EXCEPT ![t] = proxies[x].responsiblePID]
             /\ proxies' = IF ok THEN [proxies EXCEPT ![x].cacheEntry = cacheEntry]
                           ELSE proxies
             /\ pool' = IF ok /\ cacheEntry # NULL
                        THEN [r.pool EXCEPT !.entry[cacheEntry].refCount = @ - 1]
                        ELSE r.pool
             /\ last' = Op("RefDataset", proxies[x].description,
                           proxies[x].bShared, proxies[x].responsiblePID, r)
    /\ UNCHANGED <<singleton, pins, held, window, suppressed, config, access,
                   bands>>

\* Mutant of SetProjection: the overlay flag is left as it is.
SetProjection_KeepsOverlay(t, x, pszProjectionRefIn) ==
    /\ status = "run"
    /\ proxies[x].alive
    /\ Forward(t, x,
               [NoOut EXCEPT !.op = "SetProjection", !.x = x,
                             !.str = pszProjectionRefIn, !.refs = 1],
               derived[x])

\* GDALProxyPoolDataset::SetProjection
SetProjection(t, x, pszProjectionRefIn) ==
    /\ status = "run"
    /\ proxies[x].alive
    /\ Forward(t, x,
               [NoOut EXCEPT !.op = "SetProjection", !.x = x,
                             !.str = pszProjectionRefIn, !.refs = 1],
               [derived[x] EXCEPT !.bHasSrcProjection = FALSE])

\* GDALProxyPoolDataset::SetGeoTransform
SetGeoTransform(t, x, padfGeoTransform) ==
    /\ status = "run"
    /\ proxies[x].alive
    /\ Forward(t, x,
               [NoOut EXCEPT !.op = "SetGeoTransform", !.x = x,
                             !.gt = padfGeoTransform, !.refs = 1],
               [derived[x] EXCEPT !.bHasSrcGeoTransform = FALSE])

\* What SetProjection and SetGeoTransform are called with.
WrittenProjections == {"X"}
WrittenGeoTransforms == {<<10, 2, 0, 20, 0, -2>>}

\* Proxies are made with and without the overlays, read and written.
OverlayNext ==
    \/ \E t \in Creators, x \in ProxyIds, f \in AccessorPaths, b \in BOOLEAN,
          pr \in Projections, gt \in GeoTransforms :
          GDALProxyPoolDatasetCreate(t, x, f, b, pr, gt)
    \/ \E t \in Threads, x \in ProxyIds : GetProjectionRef(t, x)
    \/ \E t \in Threads, x \in ProxyIds : GetGeoTransform(t, x)
    \/ \E t \in Threads, x \in ProxyIds, pr \in WrittenProjections :
          SetProjection(t, x, pr)
    \/ \E t \in Threads, x \in ProxyIds, gt \in WrittenGeoTransforms :
          SetGeoTransform(t, x, gt)

OverlaySpec == ProxyInit /\ [][OverlayNext]_vars

\* ------------------------------------------------ overview and mask bands
\* How deep one thread nests the brackets of overview and mask bands.
MaxBandNest == 1

\* No band is used once its counter has reached this.
MaxBandRef == 1

\* GDALProxyPoolOverviewRasterBand::RefUnderlyingRasterBand and
\* GDALProxyPoolMaskBand::RefUnderlyingRasterBand run by thread t on the
\* band k of proxy x.  The main band's RefUnderlyingRasterBand refs the
\* proxy's dataset and asks it for its band (hasBand: GetRasterBand does
\* not return NULL), unreferencing the dataset when there is none; the
\* band keeps the main band's underlying band (written here as the dataset
\* it belongs to), counts it when it is not NULL, and returns its overview
\* or mask band (hasSub: GetOverview or GetMaskBand does not return NULL).
\* A bracket opens for the caller when the result is not NULL.
RefUnderlyingRasterBand(t, x, k) ==
    /\ status = "run"
    /\ proxies[x].alive
    /\ singleton
    /\ Len(held[t]) < MaxBandNest
    /\ bands[x][k].nRefCountUnderlyingMainRasterBand < MaxBandRef
    /\ \E r \in RefOutcomes(pool, proxies[x].description, proxies[x].bShared,
                            proxies[x].responsiblePID, openDS),
          hasBand \in BOOLEAN, hasSub \in BOOLEAN :
         LET cacheEntry == r.ret
             ok == StatusAfter(r.outcome) = "run"
             poUnderlyingDataset ==
                 IF cacheEntry # NULL THEN r.pool.entry[cacheEntry].poDS
                 ELSE NULL
             poBand == IF hasBand THEN poUnderlyingDataset ELSE NULL
             unref == cacheEntry # NULL /\
                      (poUnderlyingDataset = NULL \/ poBand = NULL)
             returned == IF hasSub THEN poBand ELSE NULL
         IN  /\ poUnderlyingDataset = NULL => hasBand /\ hasSub
             /\ poBand = NULL => hasSub
             /\ status' = StatusAfter(r.outcome)
             /\ build' = BuildAfter(r)
             /\ openDS' = OpenAfter(openDS, r)
             /\ rid' = IF ok THEN rid
                       ELSE [rid EXCEPT ![t] = proxies[x].responsiblePID]
             /\ proxies' = IF ok THEN [proxies EXCEPT ![x].cacheEntry = cacheEntry]
                           ELSE proxies
             /\ pool' = IF ok /\ unref
                        THEN [r.pool EXCEPT !.entry[cacheEntry].refCount = @ - 1]
                        ELSE r.pool
             /\ bands' = IF ok
                         THEN [bands EXCEPT ![x][k] =
                                 [poUnderlyingMainRasterBand |-> poBand,
                                  nRefCountUnderlyingMainRasterBand |->
                                      IF poBand = NULL
                                      THEN @.nRefCountUnderlyingMainRasterBand
                                      ELSE @.nRefCountUnderlyingMainRasterBand
                                           + 1]]
                         ELSE bands
             /\ held' = IF ok /\ returned # NULL
                        THEN [held EXCEPT ![t] =
                                Append(@, [p |-> x, ds |-> returned, k |-> k])]
                        ELSE held
             /\ last' = [Op("RefUnderlyingRasterBand", proxies[x].description,
                            proxies[x].bShared, proxies[x].responsiblePID, r)
                           EXCEPT !.rid = rid[t]]
    /\ UNCHANGED <<singleton, pins>>
    /\ UNCHANGED <<derived, out, window, suppressed, config, access>>

\* GDALProxyPoolOverviewRasterBand::UnrefUnderlyingRasterBand and
\* GDALProxyPoolMaskBand::UnrefUnderlyingRasterBand: thread t closes its
\* innermost bracket.  The band it was given is not used: the main band
\* unreferences the dataset of the band the object kept, if it kept one,
\* and the counter goes down.
UnrefUnderlyingRasterBand(t) ==
    /\ status = "run"
    /\ held[t] # <<>>
    /\ LET b == held[t][Len(held[t])]
           band == bands[b.p][b.k]
           poUnderlyingDataset == band.poUnderlyingMainRasterBand
           cacheEntry == proxies[b.p].cacheEntry
           called == poUnderlyingDataset # NULL
           failed == called /\ cacheEntry # NULL
                     /\ pool.entry[cacheEntry].poDS # poUnderlyingDataset
       IN  \E end \in (IF failed /\ build = "any" THEN {"abort"} ELSE {})
                      \cup {"run"} :
             /\ status' = end
             /\ build' = IF failed /\ end = "run" THEN "release" ELSE build
             /\ held' = [held EXCEPT ![t] = SubSeq(@, 1, Len(@) - 1)]
             /\ bands' = IF end = "run"
                         THEN [bands EXCEPT ![b.p][b.k]
                                 .nRefCountUnderlyingMainRasterBand = @ - 1]
                         ELSE bands
             /\ IF end = "run" /\ called /\ cacheEntry # NULL
                   /\ pool.entry[cacheEntry].poDS # NULL
                THEN /\ pool' = [pool EXCEPT
                                   !.entry[cacheEntry].refCount = @ - 1]
                     /\ last' = [NoOp EXCEPT !.op = "UnrefUnderlyingRasterBand",
                                             !.ret = cacheEntry,
                                             !.assertFailed = failed]
                ELSE /\ pool' = pool
                     /\ last' = [NoOp EXCEPT !.op = "UnrefUnderlyingRasterBand",
                                             !.assertFailed = failed]
    /\ UNCHANGED <<singleton, rid, openDS, pins, proxies>>
    /\ UNCHANGED <<derived, out, window, suppressed, config, access>>

\* Proxies are made, and one thread uses their overview and mask bands, one
\* bracket at a time.
BandNext ==
    \/ \E t \in Callers, x \in ProxyIds, f \in Paths, b \in BOOLEAN :
          ProxyCreate(t, x, f, b)
    \/ \E t \in Callers, x \in ProxyIds, k \in BandKinds :
          RefUnderlyingRasterBand(t, x, k)
    \/ \E t \in Callers : UnrefUnderlyingRasterBand(t)

BandSpec == ProxyInit /\ [][BandNext]_vars

\* ------------------------------------------------ accessors inside GDALOpenEx
\* An accessor of the proxy x called by the thread the pool is calling
\* GDALOpenEx for (the driver reads a proxy of its own): RefUnderlyingDataset,
\* the underlying dataset's answer, UnrefUnderlyingDataset.
NestedAccess(t, x) ==
    /\ status = "run"
    /\ window.kind = "open"
    /\ window.t = t
    /\ proxies[x].alive
    /\ Delegate(t, x, out, [derived |-> derived[x], out |-> out])

NestedNext ==
    \/ WindowNext
    \/ \E t \in Callers, x \in ProxyIds : NestedAccess(t, x)

NestedSpec == ProxyInit /\ [][NestedNext]_vars

\* ----------------------------------------------------------------- claims

\* C1: in every state reachable by RefDataset, UnrefDataset and CloseDataset
\* calls the number of entries, currentSize, is at most maxSize.
C1_SizeAtMostMaxSize ==
    /\ pool.currentSize <= pool.maxSize
    /\ Cardinality(Allocated(pool)) = pool.currentSize

\* A miss on a full pool has been served (by recycling an entry).
C1_Witness ==
    /\ IsRef(last) /\ last.outcome = "recycled"
    /\ pool.currentSize = pool.maxSize

\* C2: in every reachable state the list is a well-formed doubly-linked
\* list: following next from firstEntry visits exactly currentSize distinct
\* entries and ends at lastEntry, prev and next mirror each other, the
\* head has no prev and the tail no next.
C2_ListWellFormed == WellFormed(pool)

\* C3: a dataset is closed, by eviction or by CloseDataset, only when its
\* entry has refCount 0 at that moment; so an entry on which a caller holds
\* a reference keeps its dataset, open, through every step.
C3_ClosedOnlyUnpinned ==
    [][/\ \A ds \in last'.closed :
             \E e \in Allocated(pool) :
                 pool.entry[e].poDS = ds /\ pool.entry[e].refCount = 0
       /\ \A e \in Allocated(pool) :
             pins[e] > 0 =>
                 /\ pool'.entry[e].poDS = pool.entry[e].poDS
                 /\ pool.entry[e].poDS \notin last'.closed]_vars

\* An eviction has closed a dataset while another entry is held.
C3_Witness ==
    /\ IsRef(last) /\ last.outcome = "recycled" /\ last.closed # {}
    /\ \E e \in Allocated(pool) : e # last.ret /\ pins[e] > 0

\* No entry of the pool p matches the request.
NoMatch(p, o) ==
    \A e \in Allocated(p) : ~Matches(p.entry[e], o.path, o.shared, o.rid)

\* C4: when currentSize = maxSize and every entry has refCount > 0, a
\* RefDataset that matches no entry fails (returns no entry, PoolExhausted)
\* and neither evicts nor grows the list.
C4_ExhaustedWhenAllPinned ==
    [][(/\ IsRef(last')
        /\ pool.currentSize = pool.maxSize
        /\ \A e \in Allocated(pool) : pool.entry[e].refCount > 0
        /\ NoMatch(pool, last'))
       => /\ last'.outcome = "exhausted"
          /\ last'.ret = NULL
          /\ pool' = pool]_vars

\* The pool holds maxSize entries for as many distinct paths, all with
\* refCount 0 and an open dataset, and the request o is for another path.
FullAndIdle(p, o) ==
    /\ p.currentSize = p.maxSize
    /\ \A e \in Allocated(p) :
          /\ p.entry[e].refCount = 0
          /\ p.entry[e].poDS # NULL
          /\ p.entry[e].pszFileName # o.path
          /\ \A f \in Allocated(p) :
                p.entry[f].pszFileName = p.entry[e].pszFileName => f = e

\* C5: on such a pool a RefDataset for a path not in the pool closes
\* exactly one dataset, that of the tail entry; afterwards currentSize is
\* unchanged, the new path's entry is the head with refCount 1, and the
\* other entries keep their paths, datasets and relative order.
C5_EvictsTheTail ==
    [][(IsRef(last') /\ FullAndIdle(pool, last'))
       => /\ last'.closed = {pool.entry[pool.lastEntry].poDS}
          /\ last'.ret = pool.lastEntry
          /\ pool'.currentSize = pool.currentSize
          /\ pool'.firstEntry = last'.ret
          /\ pool'.entry[last'.ret].pszFileName = last'.path
          /\ pool'.entry[last'.ret].refCount = 1
          /\ Walk(pool') = <<last'.ret>> \o Without(Walk(pool), last'.ret)
          /\ \A e \in Allocated(pool) \ {last'.ret} :
                /\ pool'.entry[e].pszFileName = pool.entry[e].pszFileName
                /\ pool'.entry[e].poDS = pool.entry[e].poDS]_vars

\* C7: after every RefDataset that returns an entry (hit, fresh allocation
\* or reuse of an evicted entry) the returned entry is firstEntry.
C7_ReturnedEntryIsHead ==
    (IsRef(last) /\ last.ret # NULL) => pool.firstEntry = last.ret

\* A hit has returned an entry that is followed by another one.
C7_Witness ==
    /\ IsRef(last) /\ last.outcome = "hit"
    /\ pool.entry[last.ret].next # NULL
    /\ pool.entry[last.ret].next # last.ret

\* C8: the list order from head to tail is the order of the entries' most
\* recent RefDataset, most recent first: a RefDataset that returns an entry
\* puts it first and keeps the order of all the others, and nothing else
\* changes the order.
C8_ListIsMruOrder ==
    [][IF IsRef(last') /\ last'.ret # NULL
       THEN Walk(pool') = <<last'.ret>> \o Without(Walk(pool), last'.ret)
       ELSE Walk(pool') = Walk(pool)]_vars

C10_SharedRefPerRID ==
    [][/\ (IsRef(last') /\ last'.shared /\ last'.ret # NULL)
          => pool'.entry[last'.ret].responsiblePID = last'.rid
       /\ (/\ IsRef(last) /\ last.shared /\ last.ret # NULL
           /\ IsRef(last') /\ last'.shared
           /\ last'.path = last.path /\ last'.rid # last.rid
           /\ ~IsFull(pool))
          => /\ last'.ret # NULL
             /\ last'.ret # last.ret
             /\ pool'.entry[last.ret].responsiblePID = last.rid
             /\ pool'.entry[last'.ret].responsiblePID = last'.rid
             /\ pool'.entry[last.ret].pszFileName = last.path
             /\ pool'.entry[last'.ret].pszFileName = last.path
             /\ OnList(pool', last.ret)
             /\ OnList(pool', last'.ret)]_vars

\* Two entries for one path, opened by shared references under two RIDs.
C10_Witness ==
    /\ IsRef(last) /\ last.shared /\ last.outcome = "new"
    /\ \E e \in Allocated(pool) :
          /\ e # last.ret
          /\ pool.entry[e].pszFileName = last.path
          /\ pool.entry[e].responsiblePID # last.rid
          /\ pins[e] > 0

\* C6: no entry's refCount is ever negative in a state reached through the
\* proxies, for every interleaving of RefUnderlyingDataset and
\* UnrefUnderlyingDataset brackets of several threads, nested or not, on
\* shared or non-shared proxies.
C6_RefCountNeverNegative ==
    \A e \in Ent : pool.entry[e].refCount >= 0

\* C9, for proxies (checked under ProxySpec): when brackets are open on two
\* shared proxies for one path created under one RID, the second of them
\* opened by a hit, both got the same dataset from the same entry, whose
\* refCount is at least 2.
C9_SharedProxies ==
    \A t, u \in Threads : \A i \in 1..Len(held[t]), j \in 1..Len(held[u]) :
        LET x == held[t][i].p
            y == held[u][j].p
        IN  (/\ x # y
             /\ proxies[x].bShared /\ proxies[y].bShared
             /\ proxies[x].description = proxies[y].description
             /\ proxies[x].responsiblePID = proxies[y].responsiblePID
             /\ IsRef(last) /\ last.outcome = "hit"
             /\ last.path = proxies[x].description /\ last.shared)
            => /\ held[t][i].ds = held[u][j].ds
               /\ proxies[x].cacheEntry = proxies[y].cacheEntry
               /\ pool.entry[proxies[x].cacheEntry].refCount >= 2

\* C4 on a well-formed list: the statement of C4_ExhaustedWhenAllPinned holds
\* of every RefDataset that starts from a list satisfying C2_ListWellFormed.
C4_OnWellFormedList ==
    [][(/\ WellFormed(pool)
        /\ IsRef(last')
        /\ pool.currentSize = pool.maxSize
        /\ \A e \in Allocated(pool) : pool.entry[e].refCount > 0
        /\ NoMatch(pool, last'))
       => /\ last'.outcome = "exhausted"
          /\ last'.ret = NULL
          /\ pool' = pool]_vars

\* C5 on a well-formed list: the statement of C5_EvictsTheTail holds of
\* every RefDataset that starts from a list satisfying C2_ListWellFormed.
C5_OnWellFormedList ==
    [][(WellFormed(pool) /\ IsRef(last') /\ FullAndIdle(pool, last'))
       => /\ last'.closed = {pool.entry[pool.lastEntry].poDS}
          /\ last'.ret = pool.lastEntry
          /\ pool'.currentSize = pool.currentSize
          /\ pool'.firstEntry = last'.ret
          /\ pool'.entry[last'.ret].pszFileName = last'.path
          /\ pool'.entry[last'.ret].refCount = 1
          /\ Walk(pool') = <<last'.ret>> \o Without(Walk(pool), last'.ret)
          /\ \A e \in Allocated(pool) \ {last'.ret} :
                /\ pool'.entry[e].pszFileName = pool.entry[e].pszFileName
                /\ pool'.entry[e].poDS = pool.entry[e].poDS]_vars

\* C8 on a well-formed list: the statement of C8_ListIsMruOrder holds of
\* every step that starts from a list satisfying C2_ListWellFormed and does
\* not pass the failed CPLAssert(0) of line 272.
C8_OnWellFormedList ==
    [][(WellFormed(pool) /\ ~last'.assertFailed)
       => IF IsRef(last') /\ last'.ret # NULL
          THEN Walk(pool') = <<last'.ret>> \o Without(Walk(pool), last'.ret)
          ELSE Walk(pool') = Walk(pool)]_vars

\* C11: a RefDataset(p, not shared) never returns an entry whose refCount
\* was greater than 0 when the call started; the returned entry has refCount
\* exactly 1 afterwards, and every entry for p that was pinned keeps its
\* refCount and its dataset.
C11_ExclusiveRefTakesIdleEntry ==
    [][(IsRef(last') /\ ~last'.shared /\ last'.ret # NULL)
       => /\ pool.entry[last'.ret].alloc => pool.entry[last'.ret].refCount = 0
          /\ pool'.entry[last'.ret].refCount = 1
          /\ \A e \in Allocated(pool) :
                (pool.entry[e].pszFileName = last'.path
                 /\ pool.entry[e].refCount > 0)
                => /\ e # last'.ret
                   /\ pool'.entry[e].refCount = pool.entry[e].refCount
                   /\ pool'.entry[e].poDS = pool.entry[e].poDS
                   /\ pool'.entry[e].pszFileName = last'.path]_vars

\* An exclusive reference has been given a second entry for a name while
\* another entry for that name is held.
C11_Witness ==
    /\ IsRef(last) /\ ~last.shared /\ last.outcome \in {"new", "recycled"}
    /\ \E e \in Allocated(pool) :
          /\ e # last.ret
          /\ pool.entry[e].pszFileName = last.path
          /\ pool.entry[e].refCount > 0

\* The pools p and q hold the same entries with the same names, RIDs and
\* datasets, the refCount of e differing by d, and the same order of the
\* entries other than e, with e on the list of both.
SameButFor(p, q, e, d) ==
    /\ q.currentSize = p.currentSize
    /\ q.maxSize = p.maxSize
    /\ Allocated(q) = Allocated(p)
    /\ \A f \in Allocated(p) :
          /\ q.entry[f].pszFileName = p.entry[f].pszFileName
          /\ q.entry[f].responsiblePID = p.entry[f].responsiblePID
          /\ q.entry[f].poDS = p.entry[f].poDS
          /\ q.entry[f].refCount =
                p.entry[f].refCount + (IF f = e THEN d ELSE 0)
    /\ Without(Walk(q), e) = Without(Walk(p), e)
    /\ OnList(p, e) <=> OnList(q, e)

\* C14: a RefDataset that hits an entry e changes nothing but the refCount
\* of e, by +1, and the place of e in the list (the head), and calls neither
\* the opener nor a close; UnrefDataset(e) changes nothing but the refCount
\* of e, by -1.  So the hit followed by the unref leaves the pool as it was
\* but for e having moved to the head.
C14_RefHitThenUnref ==
    [][/\ (IsRef(last') /\ last'.outcome = "hit")
          => /\ SameButFor(pool, pool', last'.ret, 1)
             /\ OnList(pool', last'.ret)
             /\ ~last'.opened /\ last'.closed = {}
       /\ (last'.op = "UnrefDataset")
          => /\ SameButFor(pool, pool', last'.ret, -1)
             /\ Walk(pool') = Walk(pool)
       /\ (IsRef(last) /\ last.outcome = "hit"
           /\ last'.op = "UnrefDataset" /\ last'.ret = last.ret)
          => /\ pool'.entry[last.ret].refCount + 1
                = pool.entry[last.ret].refCount
             /\ pool'.firstEntry = last.ret]_vars

\* A hit on an entry that was not the head has been followed by its unref.
C14_Witness ==
    /\ last.op = "UnrefDataset"
    /\ pool.firstEntry = last.ret
    /\ pool.entry[last.ret].refCount = 1
    /\ pool.entry[last.ret].next # NULL
    /\ pool.entry[last.ret].next # last.ret
    /\ pool.entry[pool.entry[last.ret].next].refCount = 0

\* The entries on the list of p with the name pszFileName, refCount 0 and an
\* open dataset: those _CloseDataset looks for.
IdleOpen(p, pszFileName) ==
    {e \in Allocated(p) : /\ OnList(p, e)
                          /\ p.entry[e].pszFileName = pszFileName
                          /\ p.entry[e].refCount = 0
                          /\ p.entry[e].poDS # NULL}

\* C15, as claimed: a CloseDataset(p) right after a CloseDataset(p) that
\* returned changes nothing and closes nothing, in every reachable state.
C15_CloseTwiceIsCloseOnce ==
    [][(/\ last.op = "CloseDataset" /\ last.outcome # "hang"
        /\ last'.op = "CloseDataset" /\ last'.path = last.path)
       => /\ pool' = pool
          /\ last'.closed = {}]_vars

\* C15, amended: each CloseDataset(p) that returns closes one dataset, that
\* of one entry on the list with this name, refCount 0 and an open dataset,
\* when there is such an entry, and changes only that entry (its dataset is
\* NULL and its name empty afterwards); when there is none it changes and
\* closes nothing.  So a second call right after the first is a no-op
\* exactly when the first left no such entry.
C15_CloseClosesOneIdleEntry ==
    [][(last'.op = "CloseDataset" /\ last'.outcome # "hang")
       => LET c == IdleOpen(pool, last'.path)
          IN  /\ c = {} => /\ pool' = pool
                           /\ last'.closed = {}
                           /\ last'.outcome = "none"
              /\ c # {} =>
                   /\ last'.outcome = "closed"
                   /\ last'.ret \in c
                   /\ last'.closed = {pool.entry[last'.ret].poDS}
                   /\ IdleOpen(pool', last'.path) = c \ {last'.ret}
                   /\ pool' = [pool EXCEPT
                                 !.entry[last'.ret].poDS = NULL,
                                 !.entry[last'.ret].pszFileName = EmptyName]
              /\ (last.op = "CloseDataset" /\ last.path = last'.path
                  /\ c = {})
                 => pool' = pool /\ last'.closed = {}]_vars

\* A second CloseDataset in a row for a name has found nothing to close.
C15_Witness ==
    /\ last.op = "CloseDataset" /\ last.outcome = "none"
    /\ \E e \in Allocated(pool) :
          /\ pool.entry[e].pszFileName = EmptyName
          /\ pool.entry[e].poDS = NULL
          /\ pool.entry[e].refCount = 0

\* C16: a proxy constructed with a non-null projection has the overlay flag
\* set, and a GetProjectionRef right after the construction returns exactly
\* the string passed, without any RefDataset: no open, no change of the
\* pool.
C16_ProjectionOverlay ==
    [][/\ (out'.op = "Create" /\ out'.str # NullStr)
          => derived'[out'.x].bHasSrcProjection
       /\ (/\ out.op = "Create" /\ out.str # NullStr
           /\ out'.op = "GetProjectionRef" /\ out'.x = out.x)
          => /\ out'.str = out.str
             /\ out'.refs = 0
             /\ ~IsRef(last')
             /\ pool' = pool
             /\ openDS' = openDS]_vars

\* C17: a GetGeoTransform right after the construction of a proxy with a
\* geotransform returns the six values passed, without any RefDataset: no
\* open, no change of the pool; a proxy constructed without one has
\* bHasSrcGeoTransform false and the stored transform (0,1,0,0,0,1).
C17_GeoTransformOverlay ==
    [][/\ (out'.op = "Create" /\ out'.gt # NoGeoTransform)
          => /\ derived'[out'.x].bHasSrcGeoTransform
             /\ derived'[out'.x].adfGeoTransform = out'.gt
       /\ (out'.op = "Create" /\ out'.gt = NoGeoTransform)
          => /\ ~derived'[out'.x].bHasSrcGeoTransform
             /\ derived'[out'.x].adfGeoTransform = <<0, 1, 0, 0, 0, 1>>
       /\ (/\ out.op = "Create" /\ out.gt # NoGeoTransform
           /\ out'.op = "GetGeoTransform" /\ out'.x = out.x)
          => /\ out'.gt = out.gt
             /\ out'.refs = 0
             /\ ~IsRef(last')
             /\ pool' = pool
             /\ openDS' = openDS]_vars

\* GetGeoTransform has answered from the overlay, the pool holding no entry.
C17_Witness ==
    /\ out.op = "GetGeoTransform"
    /\ out.gt = <<10, 2, 0, 20, 0, -2>>
    /\ out.refs = 0
    /\ derived[out.x].bHasSrcGeoTransform
    /\ pool.currentSize = 0

\* C18: once a GetMetadata(domain) of a proxy has succeeded, every later
\* GetMetadata with that domain returns the memoised copy without calling
\* RefDataset: no open, no refCount change, no reordering of the list; and
\* likewise GetMetadataItem with the same name and domain.
C18_MemoisedMetadataWithoutRef ==
    [][(out'.op \in {"GetMetadata", "GetMetadataItem"} /\ out'.memo)
       => /\ out'.refs = 0
          /\ ~IsRef(last')
          /\ pool' = pool
          /\ openDS' = openDS]_vars

\* C12: when a thread whose RID is R2 works on a proxy made under RID R1 and
\* the pool opens the source, GDALOpenEx runs with the thread's responsible
\* PID equal to R1 and the entry being filled records R1; once
\* RefUnderlyingDataset has returned (with a dataset, after a failed open or
\* from an exhausted pool) the thread's responsible PID is its own again.
C12_OpenerRunsUnderCreatorRID ==
    /\ (status = "run" /\ window.kind = "open") =>
          /\ rid[window.t] = proxies[window.x].responsiblePID
          /\ pool.entry[window.cur].responsiblePID =
                proxies[window.x].responsiblePID
          /\ pool.entry[window.cur].pszFileName = proxies[window.x].description
    /\ (WinIdle /\ status = "run" /\ last.op = "RefDataset") =>
          \A t \in Callers : rid[t] = t

\* Thread 1 is inside GDALOpenEx for a proxy that thread 2 made.
C12_Witness ==
    /\ status = "run"
    /\ window.kind = "open"
    /\ proxies[window.x].responsiblePID # window.t
    /\ rid[window.t] # window.t

\* C13: every GDALClose the pool calls (evicting in _RefDataset, in
\* _CloseDataset, in its destructor) runs with the calling thread's
\* responsible PID set to the one recorded in the entry it closes, and when
\* the pool method has returned the responsible PID is what it was when the
\* method was entered.
C13_CloseRunsUnderEntryRID ==
    /\ (status = "run" /\ window.kind \in {"evict", "close", "delete"}) =>
          /\ window.ds # NULL
          /\ rid[window.t] = pool.entry[window.cur].responsiblePID
    /\ (status = "run" /\ window.kind = "open") =>
          rid[window.t] = window.responsiblePID
    /\ (WinIdle /\ status = "run") => \A t \in Threads : rid[t] = t

\* The pool is closing the dataset of an entry recorded under another
\* responsible PID than the one the pool method was entered with.
C13_Witness ==
    /\ status = "run"
    /\ window.kind \in {"evict", "close", "delete"}
    /\ pool.entry[window.cur].responsiblePID # window.responsiblePID
    /\ rid[window.t] # window.responsiblePID

C20_UncountedProxyNeverDecrements ==
    [][\A x \in ProxyIds :
          (suppressed[x] /\ proxies[x].alive /\ ~proxies'[x].alive)
          => /\ singleton' = singleton
             /\ pool'.refCount = pool.refCount]_vars

\* C21: the singleton is made by the first Ref and deleted by the Unref that
\* takes refCount to zero: a proxy constructed when there is no pool finds
\* itself with a new, empty pool of refCount 1, and once every proxy that was
\* constructed has been destroyed there is no singleton and no dataset the
\* pool had opened is still open.
C21_SingletonLifecycle ==
    [][/\ (~singleton /\ \E x \in ProxyIds :
                            ~proxies[x].alive /\ proxies'[x].alive)
          => /\ singleton'
             /\ pool' = [NewPool(MaxDatasetPoolSize) EXCEPT !.refCount = 1]
       /\ (status' = "run" /\ \A x \in ProxyIds : ~proxies'[x].alive)
          => ~singleton' /\ openDS' = {}]_vars

\* C21 on a well-formed list: the statement of C21_SingletonLifecycle holds
\* when no pool that is deleted has lost an entry, that is when every
\* allocated entry of it is on its list.
C21_OnWellFormedList ==
    [][/\ (~singleton /\ \E x \in ProxyIds :
                            ~proxies[x].alive /\ proxies'[x].alive)
          => /\ singleton'
             /\ pool' = [NewPool(MaxDatasetPoolSize) EXCEPT !.refCount = 1]
       /\ (status' = "run" /\ \A x \in ProxyIds : ~proxies'[x].alive)
          => /\ ~singleton'
             /\ (singleton /\ \A e \in Allocated(pool) : OnList(pool, e))
                => openDS' = {}]_vars

\* C22 as claimed: the pool is made with maxSize the configured value
\* clamped to 2..1000 (2 for a value below 2, 1000 for a value above 1000),
\* and 100 when the option is not set.
C22_MaxSizeClamped ==
    [][(~singleton /\ singleton')
       => pool'.maxSize =
             IF ~config.set THEN 100
             ELSE IF config.value < 2 THEN 2
             ELSE IF config.value > 1000 THEN 1000
             ELSE config.value]_vars

\* C22, amended: the pool is made with maxSize the configured value when
\* that is within 2..1000, and 100 when it is below 2, above 1000 or not set.
C22_MaxSizeInRangeOrDefault ==
    [][(~singleton /\ singleton')
       => pool'.maxSize =
             IF config.set /\ config.value >= 2 /\ config.value <= 1000
             THEN config.value
             ELSE 100]_vars

\* A pool has just been made under a configured value outside 2..1000.
C22_Witness ==
    /\ singleton
    /\ last.op = "Ref"
    /\ pool.refCount = 1
    /\ config.set
    /\ config.value > 1000
    /\ pool.maxSize = 100

\* C23: while refCountOfDisableRefCount is raised by PreventDestroy, no
\* construction or destruction of a proxy changes refCount or deletes the
\* pool; ForceDestroy then deletes the pool whatever refCount is, closes
\* every open dataset and leaves no singleton.
C23_PreventThenForce ==
    [][/\ (/\ singleton /\ pool.refCountOfDisableRefCount > 0
           /\ last'.op \notin {"PreventDestroy", "ForceDestroy"})
          => singleton' /\ pool'.refCount = pool.refCount
       /\ (/\ singleton /\ pool.refCountOfDisableRefCount > 0
           /\ last'.op = "ForceDestroy" /\ status' = "run")
          => ~singleton' /\ openDS' = {}]_vars

\* C23 on a pool whose entries are all on the list: the same, the datasets
\* being all closed when no entry had been lost from the list.
C23_OnWellFormedList ==
    [][/\ (/\ singleton /\ pool.refCountOfDisableRefCount > 0
           /\ last'.op \notin {"PreventDestroy", "ForceDestroy"})
          => singleton' /\ pool'.refCount = pool.refCount
       /\ (/\ singleton /\ pool.refCountOfDisableRefCount > 0
           /\ last'.op = "ForceDestroy" /\ status' = "run")
          => /\ ~singleton'
             /\ (\A e \in Allocated(pool) : OnList(pool, e)) => openDS' = {}]_vars

\* C24: when GDALOpenEx returns NULL, RefDataset still returns the entry,
\* with a NULL dataset and refCount 1; RefUnderlyingDataset unreferences it
\* and returns NULL (no bracket opens), so after the call the entry has
\* refCount 0, and no UnrefUnderlyingDataset decrements an entry whose
\* dataset is NULL.
C24_FailedOpenIsUnreferenced ==
    [][/\ \A x \in ProxyIds :
            (status = "run" /\ singleton /\ proxies[x].alive)
            => \A r \in RefOutcomes(pool, proxies[x].description,
                                    proxies[x].bShared,
                                    proxies[x].responsiblePID, openDS) :
                 (/\ r.opened /\ StatusAfter(r.outcome) = "run"
                  /\ r.pool.entry[r.ret].poDS = NULL)
                 => r.pool.entry[r.ret].refCount = 1
       /\ (/\ last'.op = "RefDataset" /\ last'.opened /\ status' = "run"
           /\ pool'.entry[last'.ret].poDS = NULL)
          => /\ pool'.entry[last'.ret].refCount = 0
             /\ OnList(pool', last'.ret)
             /\ held' = held
             /\ \E x \in ProxyIds : proxies'[x].cacheEntry = last'.ret
       /\ (/\ last'.op \in {"UnrefDataset", "UnrefUnderlyingDataset"}
           /\ status' = "run")
          => \A e \in Ent : pool.entry[e].poDS = NULL
                            => pool'.entry[e].refCount = pool.entry[e].refCount
      ]_vars

\* A nested RefUnderlyingDataset has failed to open: its entry is listed
\* with a NULL dataset and refCount 0, and it is the cacheEntry of a proxy
\* with a bracket open.
C24_Witness ==
    /\ status = "run" /\ last.op = "RefDataset" /\ last.opened
    /\ pool.entry[last.ret].poDS = NULL
    /\ pool.entry[last.ret].refCount = 0
    /\ \E t \in Threads : \E i \in 1..Len(held[t]) :
         proxies[held[t][i].p].cacheEntry = last.ret

\* C25: between pool operations no entry on the list has a NULL dataset.
C25_NoNullHandleListed ==
    (singleton /\ status = "run")
    => \A e \in Ent : OnList(pool, e) => pool.entry[e].poDS # NULL

\* C25 as the code has it: an entry with a NULL dataset stays on the list
\* between operations, with refCount 0; a dataset pointer becomes NULL, or an
\* entry is made with one, only by the CloseDataset of a destructor, which
\* leaves refCount 0 and the name empty, or by a RefDataset that opened into
\* that entry and failed.
C25_NullHandleIsIdle ==
    [][status' = "run"
       => /\ \A e \in Ent : (pool'.entry[e].alloc /\ pool'.entry[e].poDS = NULL)
                            => pool'.entry[e].refCount = 0
          /\ \A e \in Ent :
               (/\ pool'.entry[e].alloc /\ pool'.entry[e].poDS = NULL
                /\ ~(pool.entry[e].alloc /\ pool.entry[e].poDS = NULL))
               => \/ /\ last'.op = "RefDataset" /\ last'.opened
                     /\ last'.ret = e
                     /\ pool'.entry[e].pszFileName = last'.path
                  \/ /\ last'.op = "Unref" /\ last'.ret = e
                     /\ pool.entry[e].poDS \in last'.closed
                     /\ pool'.entry[e].pszFileName = EmptyName]_vars

\* Between two operations the list holds the shell CloseDataset left and the
\* entry of a failed open, both with a NULL dataset.
C25_Witness ==
    /\ singleton /\ status = "run"
    /\ \E e \in Ent : /\ OnList(pool, e) /\ pool.entry[e].poDS = NULL
                      /\ pool.entry[e].pszFileName = EmptyName
    /\ \E e \in Ent : /\ OnList(pool, e) /\ pool.entry[e].poDS = NULL
                      /\ pool.entry[e].pszFileName # EmptyName

\* C26: under every interleaving of RefUnderlyingDataset and
\* UnrefUnderlyingDataset brackets of several threads, each
\* UnrefUnderlyingDataset decrements the entry that holds the dataset its
\* bracket got, and once every bracket is closed every refCount is 0.
C26_BracketsPairUp ==
    [][status' = "run"
       => /\ \A t \in Threads :
               (Len(held[t]) >= 1 /\ held'[t] = SubSeq(held[t], 1, Len(held[t]) - 1))
               => \E e \in Ent :
                    /\ pool.entry[e].poDS = held[t][Len(held[t])].ds
                    /\ pool'.entry[e].refCount = pool.entry[e].refCount - 1
          /\ (\A t \in Threads : held'[t] = <<>>)
             => \A e \in Ent : pool'.entry[e].refCount = 0]_vars

\* C27: every RefDataset and every CloseDataset call made on a reachable
\* pool returns: its scan of the list comes to the end, it never loops for
\* ever.
C27_CallsTerminate ==
    [][last'.op \in {"RefDataset", "CloseDataset"}
       => last'.outcome # "hang" /\ status' # "hang"]_vars

\* C27 on a well-formed list: a call made on a pool whose list is well
\* formed returns.
C27_OnWellFormedList ==
    [][(last'.op \in {"RefDataset", "CloseDataset"} /\ WellFormed(pool))
       => last'.outcome # "hang" /\ status' # "hang"]_vars

\* C28: eAccess is not part of the lookup key: a shared RefDataset for a
\* path under the RID of a listed entry for that path, whose dataset was
\* opened with the other access mode, returns such an entry without calling
\* GDALOpenEx; and CloseDataset closes the same entry whatever eAccess it is
\* given, also one opened with the other mode.
C28_AccessNotInKey ==
    [][/\ (/\ last'.op = "RefDataset" /\ last'.shared /\ status' = "run"
           /\ \E e \in Ent :
                /\ OnList(pool, e)
                /\ pool.entry[e].pszFileName = last'.path
                /\ pool.entry[e].responsiblePID = last'.rid
                /\ pool.entry[e].poDS # NULL
                /\ access.of[pool.entry[e].poDS] # nFlag(access'.eAccess))
          => /\ ~last'.opened
             /\ last'.ret # NULL
             /\ pool.entry[last'.ret].pszFileName = last'.path
             /\ pool.entry[last'.ret].responsiblePID = last'.rid
             /\ pool'.entry[last'.ret].poDS = pool.entry[last'.ret].poDS
             /\ pool'.entry[last'.ret].refCount
                  = pool.entry[last'.ret].refCount + 1
             /\ openDS' = openDS
             /\ access'.of = access.of
       /\ (last'.op = "CloseDataset" /\ status' = "run")
          => /\ \A a \in GDALAccess :
                  _CloseDatasetAs(pool, last'.path, a).pool = pool'
             /\ (\E e \in Ent : /\ OnList(pool, e)
                                /\ pool.entry[e].pszFileName = last'.path
                                /\ pool.entry[e].refCount = 0
                                /\ pool.entry[e].poDS # NULL)
                => last'.closed # {}]_vars

\* A shared RefDataset with GA_Update has hit an entry whose dataset was
\* opened read-only.
C28_Witness ==
    /\ status = "run" /\ last.op = "RefDataset" /\ last.shared
    /\ ~last.opened /\ last.ret # NULL
    /\ access.eAccess = GA_Update
    /\ pool.entry[last.ret].poDS # NULL
    /\ access.of[pool.entry[last.ret].poDS] = nFlag(GA_ReadOnly)
    /\ pool.entry[last.ret].refCount >= 2

\* C29: with maxSize >= 2 the entry a RefDataset evicts always has a
\* predecessor, it is never firstEntry: no call takes the branch of line
\* 271 that holds CPLAssert(0).
C29_VictimIsNeverHead ==
    [][(IsRef(last') /\ pool.maxSize >= 2)
       => /\ last'.outcome = "recycled" => ~VictimIsHead(pool, last'.ret)
          /\ ~last'.assertFailed]_vars

\* C30: a RefDataset that matches no entry of a full pool with an idle entry
\* evicts the idle entry nearest the tail: that entry is returned, at the
\* head, with the new path, refCount 1 and the caller's RID, and every other
\* entry keeps its path, RID, dataset, refCount and its place relative to
\* the others.
C30_EvictsLastIdleEntry ==
    [][(/\ IsRef(last') /\ IsFull(pool)
        /\ \A e \in Ent : OnList(pool, e)
             => ~Matches(pool.entry[e], last'.path, last'.shared, last'.rid)
        /\ \E e \in Ent : OnList(pool, e) /\ pool.entry[e].refCount = 0)
       => LET w == Walk(pool)
              idle == {i \in 1..Len(w) : pool.entry[w[i]].refCount = 0}
              z == w[CHOOSE i \in idle : \A j \in idle : j <= i]
          IN  /\ last'.ret = z
              /\ last'.closed = {pool.entry[z].poDS} \ {NULL}
              /\ pool'.firstEntry = z
              /\ pool'.entry[z].pszFileName = last'.path
              /\ pool'.entry[z].refCount = 1
              /\ pool'.entry[z].responsiblePID = last'.rid
              /\ Walk(pool') = <<z>> \o Without(w, z)
              /\ \A e \in Allocated(pool) \ {z} :
                    /\ pool'.entry[e].pszFileName = pool.entry[e].pszFileName
                    /\ pool'.entry[e].responsiblePID
                         = pool.entry[e].responsiblePID
                    /\ pool'.entry[e].poDS = pool.entry[e].poDS
                    /\ pool'.entry[e].refCount = pool.entry[e].refCount]_vars

\* C30 when the idle entry nearest the tail is not the head of a well-formed
\* list: the statement of C30_EvictsLastIdleEntry.
C30_WhenVictimHasPredecessor ==
    [][(/\ IsRef(last') /\ IsFull(pool)
        /\ \A e \in Ent : OnList(pool, e)
             => ~Matches(pool.entry[e], last'.path, last'.shared, last'.rid)
        /\ \E e \in Ent : OnList(pool, e) /\ pool.entry[e].refCount = 0
        /\ WellFormed(pool)
        /\ \E e \in Ent : /\ OnList(pool, e) /\ pool.entry[e].refCount = 0
                          /\ e # pool.firstEntry)
       => LET w == Walk(pool)
              idle == {i \in 1..Len(w) : pool.entry[w[i]].refCount = 0}
              z == w[CHOOSE i \in idle : \A j \in idle : j <= i]
          IN  /\ last'.ret = z
              /\ last'.closed = {pool.entry[z].poDS} \ {NULL}
              /\ pool'.firstEntry = z
              /\ pool'.entry[z].pszFileName = last'.path
              /\ pool'.entry[z].refCount = 1
              /\ pool'.entry[z].responsiblePID = last'.rid
              /\ Walk(pool') = <<z>> \o Without(w, z)
              /\ \A e \in Allocated(pool) \ {z} :
                    /\ pool'.entry[e].pszFileName = pool.entry[e].pszFileName
                    /\ pool'.entry[e].responsiblePID
                         = pool.entry[e].responsiblePID
                    /\ pool'.entry[e].poDS = pool.entry[e].poDS
                    /\ pool'.entry[e].refCount = pool.entry[e].refCount]_vars

\* C31: without ForceDestroy, while a proxy that incremented refCount is
\* alive the singleton exists and refCount is the number of such proxies,
\* whether proxies are constructed at top level or inside a GDALOpenEx of
\* the pool; so no operation of such a proxy finds the pool deleted.
C31_PoolOutlivesCountedProxies ==
    LET counted == {x \in ProxyIds : proxies[x].alive /\ ~suppressed[x]}
    IN  (status = "run" /\ counted # {})
        => singleton /\ pool.refCount = Cardinality(counted)

\* C32: a RefDataset that fails because the pool is full and every entry is
\* pinned leaves the pool as it was (the list, currentSize, every entry's
\* name, RID, dataset and refCount, refCountOfDisableRefCount), returns no
\* entry, and calls neither GDALOpenEx nor GDALClose.
C32_ExhaustedLeavesPool ==
    [][(IsRef(last') /\ last'.outcome = "exhausted")
       => /\ pool' = pool
          /\ openDS' = openDS
          /\ pins' = pins
          /\ last'.ret = NULL
          /\ last'.closed = {}
          /\ ~last'.opened
          /\ status' = "run"]_vars

\* A RefDataset has failed on a full pool whose entries are all pinned.
C32_Witness ==
    /\ status = "run" /\ last.op = "RefDataset" /\ last.outcome = "exhausted"
    /\ IsFull(pool)
    /\ \A e \in Ent : OnList(pool, e) => pool.entry[e].refCount > 0

\* C33: UnrefDataset(e) decreases the refCount of e by exactly 1 and changes
\* nothing else: the list and its order, currentSize, every dataset, name
\* and RID and every other refCount stay as they were, and no dataset is
\* closed.
C33_UnrefChangesOneRefCount ==
    [][last'.op = "UnrefDataset"
       => /\ pool' = [pool EXCEPT !.entry[last'.ret].refCount
                                     = pool.entry[last'.ret].refCount - 1]
          /\ pool'.entry[last'.ret].refCount # pool.entry[last'.ret].refCount
          /\ Walk(pool') = Walk(pool)
          /\ openDS' = openDS
          /\ last'.closed = {}]_vars

\* An UnrefDataset has taken the head of a two-entry list to refCount 0: the
\* entry is still the head and its dataset is still open.
C33_Witness ==
    /\ status = "run" /\ last.op = "UnrefDataset"
    /\ pool.firstEntry = last.ret
    /\ pool.entry[last.ret].refCount = 0
    /\ pool.entry[last.ret].poDS \in openDS
    /\ Len(Walk(pool)) = 2

\* C34: CloseDataset(p, a) closes at most one dataset, that of the first
\* entry from the head with the name p, refCount 0 and an open dataset, and
\* leaves that entry on the list with a NULL dataset and an empty name;
\* currentSize, the order of the list and every refCount stay as they were,
\* and when there is no such entry nothing changes.
C34_CloseClosesFirstIdleEntry ==
    [][last'.op = "CloseDataset"
       => LET w == Walk(pool)
              c == {i \in 1..Len(w) : /\ pool.entry[w[i]].pszFileName = last'.path
                                      /\ pool.entry[w[i]].refCount = 0
                                      /\ pool.entry[w[i]].poDS # NULL}
          IN  /\ pool'.currentSize = pool.currentSize
              /\ Walk(pool') = w
              /\ \A e \in Ent : pool'.entry[e].refCount = pool.entry[e].refCount
              /\ Cardinality(last'.closed) <= 1
              /\ openDS' = openDS \ last'.closed
              /\ c = {} => pool' = pool /\ last'.closed = {}
              /\ c # {} =>
                   LET z == w[CHOOSE i \in c : \A j \in c : i <= j]
                   IN  /\ last'.ret = z
                       /\ last'.closed = {pool.entry[z].poDS}
                       /\ pool' = [pool EXCEPT
                                     !.entry[z].poDS = NULL,
                                     !.entry[z].pszFileName = EmptyName]]_vars

\* A CloseDataset has closed the first of two idle open entries of its
\* name: the closed one is a shell on the list, ahead of the other.
C34_Witness ==
    /\ status = "run" /\ last.op = "CloseDataset" /\ last.closed # {}
    /\ pool.entry[last.ret].poDS = NULL
    /\ pool.entry[last.ret].pszFileName = EmptyName
    /\ \E i, j \in 1..Len(Walk(pool)) :
          /\ i < j
          /\ Walk(pool)[i] = last.ret
          /\ pool.entry[Walk(pool)[j]].pszFileName = last.path
          /\ pool.entry[Walk(pool)[j]].refCount = 0
          /\ pool.entry[Walk(pool)[j]].poDS # NULL

\* C35: the RefDataset(p) that follows a CloseDataset(p) which closed an
\* entry does not hit the shell: it misses, calls GDALOpenEx again and
\* returns an entry with the dataset GDALOpenEx returned (NULL if the open
\* failed), and on a pool that is not full it allocates one more entry.
C35_RefAfterCloseReopens ==
    [][(/\ last.op = "CloseDataset" /\ last.closed # {}
        /\ IsRef(last') /\ last'.path = last.path)
       => /\ last'.opened
          /\ last'.ret # NULL
          /\ \/ pool'.entry[last'.ret].poDS = NULL
             \/ pool'.entry[last'.ret].poDS \in openDS' \ (openDS \ last'.closed)
          /\ ~IsFull(pool) => /\ pool'.currentSize = pool.currentSize + 1
                              /\ last'.ret \notin Allocated(pool)]_vars

\* C35 as the code has it: the RefDataset(p) that follows a CloseDataset(p)
\* which closed an entry never hits the shell, whose name is empty.  The
\* entry it returns, if it returns one, is either another entry of the list
\* that matches p, by a hit without GDALOpenEx, or an entry GDALOpenEx was
\* called for, holding what GDALOpenEx returned (NULL if the open failed);
\* when no entry matches and the pool is not full the entry is a new one,
\* currentSize grows by 1 and the shell stays on the list as it was.
C35_RefAfterCloseSkipsShell ==
    [][(/\ last.op = "CloseDataset" /\ last.closed # {}
        /\ IsRef(last') /\ last'.path = last.path)
       => LET shell == last.ret
              cur == last'.ret
          IN  /\ ~(cur = shell /\ ~last'.opened)
              /\ (cur # NULL /\ ~last'.opened)
                 => /\ last'.outcome = "hit"
                    /\ OnList(pool, cur)
                    /\ Matches(pool.entry[cur], last'.path, last'.shared,
                               last'.rid)
                    /\ openDS' = openDS
              /\ (cur # NULL /\ last'.opened)
                 => /\ NoMatch(pool, last') \/ ~WellFormed(pool)
                    /\ pool'.entry[cur].pszFileName = last'.path
                    /\ pool'.entry[cur].refCount = 1
                    /\ \/ pool'.entry[cur].poDS = NULL
                       \/ pool'.entry[cur].poDS \in openDS' \ (openDS \ last'.closed)
              /\ (NoMatch(pool, last') /\ ~IsFull(pool))
                 => /\ last'.outcome = "new"
                    /\ cur \notin Allocated(pool)
                    /\ pool'.currentSize = pool.currentSize + 1
                    /\ pool'.firstEntry = cur
                    /\ OnList(pool', shell)
                    /\ pool'.entry[shell].poDS = NULL
                    /\ pool'.entry[shell].pszFileName = EmptyName
                    /\ pool'.entry[shell].refCount = 0]_vars

\* A RefDataset on a pool that was not full has opened into a new entry
\* while the shell a CloseDataset left is still on the list behind it.
C35_Witness ==
    /\ status = "run" /\ last.op = "RefDataset" /\ last.outcome = "new"
    /\ last.opened /\ pool.entry[last.ret].poDS # NULL
    /\ pool.currentSize = 2
    /\ \E e \in Ent : /\ e # last.ret /\ OnList(pool, e)
                      /\ pool.entry[e].poDS = NULL
                      /\ pool.entry[e].pszFileName = EmptyName

\* C36: a RefDataset whose scan stops at an entry with a NULL dataset (the
\* entry a failed open left, matched by a shared request under its RID or
\* by an exclusive request while its refCount is 0) returns that entry, its
\* dataset still NULL, with refCount one higher and without calling
\* GDALOpenEx; GDALOpenEx is called only when no entry of the list matches,
\* so for that path again only once the entry has been evicted and reused.
C36_FailedOpenIsNotRetried ==
    [][IsRef(last')
       => LET w == Walk(pool)
              m == {i \in 1..Len(w) :
                      Matches(pool.entry[w[i]], last'.path, last'.shared,
                              last'.rid)}
              first == w[CHOOSE i \in m : \A j \in m : i <= j]
          IN  /\ (m # {} /\ pool.entry[first].poDS = NULL)
                 => /\ status' = "run"
                    /\ last'.ret = first
                    /\ last'.outcome = "hit"
                    /\ ~last'.opened
                    /\ pool'.entry[first].poDS = NULL
                    /\ pool'.entry[first].refCount
                         = pool.entry[first].refCount + 1
                    /\ openDS' = openDS
              /\ last'.opened => m = {}]_vars

\* A RefDataset has hit the idle entry a failed open left: it holds the
\* entry, whose dataset is NULL, and nothing was opened.
C36_Witness ==
    /\ status = "run" /\ last.op = "RefDataset" /\ last.outcome = "hit"
    /\ ~last.opened
    /\ pool.entry[last.ret].poDS = NULL
    /\ pool.entry[last.ret].pszFileName = last.path
    /\ pool.entry[last.ret].refCount = 1

\* C37: the bracket of an overview band or a mask band is balanced on every
\* path: whenever no bracket is open (each RefUnderlyingRasterBand was
\* followed by its UnrefUnderlyingRasterBand, or returned NULL because the
\* main band was unavailable or the underlying band had no such overview or
\* mask band), nRefCountUnderlyingMainRasterBand is 0 for every band and
\* no cache entry of the pool is referenced.
C37_BandBracketIsBalanced ==
    (status = "run" /\ \A t \in Threads : held[t] = <<>>) =>
        /\ \A x \in ProxyIds, k \in BandKinds :
              bands[x][k].nRefCountUnderlyingMainRasterBand = 0
        /\ \A e \in Ent : pool.entry[e].refCount = 0

\* C38: SetProjection and SetGeoTransform clear bHasSrcProjection and
\* bHasSrcGeoTransform before they forward the write, whatever becomes of
\* the forwarding; a cleared flag stays cleared; and with the flag cleared
\* GetProjectionRef and GetGeoTransform go through a RefDataset of the pool
\* and answer what the underlying dataset answers, or nothing when there is
\* none, not the proxy's own pszProjectionRef or adfGeoTransform.  So every
\* read after a write is a bracket on the pool.
C38_WriteInvalidatesOverlay ==
    /\ \A x \in ProxyIds :
          /\ []((out.op = "SetProjection" /\ out.x = x)
                  => []((out.op = "GetProjectionRef" /\ out.x = x)
                          => out.refs = 1))
          /\ []((out.op = "SetGeoTransform" /\ out.x = x)
                  => []((out.op = "GetGeoTransform" /\ out.x = x)
                          => out.refs = 1))
    /\ [][
           /\ out'.op = "SetProjection"
              => /\ ~derived'[out'.x].bHasSrcProjection
                 /\ IsRef(last')
           /\ out'.op = "SetGeoTransform"
              => /\ ~derived'[out'.x].bHasSrcGeoTransform
                 /\ IsRef(last')
           /\ \A x \in ProxyIds :
                proxies[x].alive =>
                  /\ ~derived[x].bHasSrcProjection
                        => ~derived'[x].bHasSrcProjection
                  /\ ~derived[x].bHasSrcGeoTransform
                        => ~derived'[x].bHasSrcGeoTransform
           /\ (out'.op = "GetProjectionRef"
               /\ ~derived[out'.x].bHasSrcProjection)
              => /\ out'.refs = 1
                 /\ IsRef(last')
                 /\ out'.str \in {NullStr, SrcProjection(proxies[out'.x].description)}
                 /\ (status' = "run" /\ last'.ret # NULL
                     /\ pool'.entry[last'.ret].poDS # NULL)
                    => out'.str = SrcProjection(proxies[out'.x].description)
           /\ (out'.op = "GetGeoTransform"
               /\ ~derived[out'.x].bHasSrcGeoTransform)
              => /\ out'.refs = 1
                 /\ IsRef(last')
                 /\ out'.gt \in {NoGeoTransform,
                                 SrcGeoTransform(proxies[out'.x].description)}
                 /\ (status' = "run" /\ last'.ret # NULL
                     /\ pool'.entry[last'.ret].poDS # NULL)
                    => out'.gt = SrcGeoTransform(proxies[out'.x].description)
          ]_vars

\* A proxy constructed with a geotransform has been written to and then
\* read: the read went to the underlying dataset and returned its
\* transform, not the one the proxy was constructed with.
C38_Witness ==
    /\ out.op = "GetGeoTransform"
    /\ out.refs = 1
    /\ derived[out.x].adfGeoTransform = <<10, 2, 0, 20, 0, -2>>
    /\ ~derived[out.x].bHasSrcGeoTransform
    /\ out.gt = SrcGeoTransform(proxies[out.x].description)

\* C39: every dataset GDALOpenEx returned to the pool is closed exactly
\* once over the pool's lifetime: what an eviction, a CloseDataset or the
\* destructor closes was open until then, the destructor does not come to
\* an entry twice, and when the pool is deleted every dataset still open is
\* closed, so that none outlives the pool.
C39_ClosedExactlyOnce ==
    [][/\ last'.closed \subseteq openDS
       /\ (singleton /\ last'.outcome = "deleted")
          => ~Destroy(pool).freedTwice
       /\ (singleton /\ ~singleton' /\ status' = "run")
          => openDS' = {}]_vars

\* C39 on a pool whose entries are all on the list: the same, for every
\* step taken from a state in which no entry has been lost from the list.
C39_OnWellFormedList ==
    [][(singleton => \A e \in Allocated(pool) : OnList(pool, e))
       => /\ last'.closed \subseteq openDS
          /\ (singleton /\ last'.outcome = "deleted")
             => ~Destroy(pool).freedTwice
          /\ (singleton /\ ~singleton' /\ status' = "run")
             => openDS' = {}]_vars

\* C40: when _RefDataset calls GDALOpenEx for a new or recycled entry, the
\* entry is on the list, at its head, with refCount 1, and
\* refCountOfDisableRefCount is one above what it was when _RefDataset
\* was called (outside the GDALClose of its eviction); until GDALOpenEx
\* returns, refCountOfDisableRefCount keeps that value, above 0, and no
\* RefDataset called from inside GDALOpenEx evicts the entry or closes
\* anything of it: the entry keeps its name and responsible PID and a
\* refCount of at least 1; when GDALOpenEx has returned,
\* refCountOfDisableRefCount is one lower again, what it was before.
C40_OpenedEntryIsPinnedAtHead ==
    [][/\ (window.kind # "open" /\ window'.kind = "open")
          => /\ OnList(pool', window'.cur)
             /\ pool'.firstEntry = window'.cur
             /\ pool'.entry[window'.cur].refCount = 1
             /\ pool'.refCountOfDisableRefCount
                   = IF window.kind = "evict"
                     THEN pool.refCountOfDisableRefCount
                     ELSE pool.refCountOfDisableRefCount + 1
             /\ pool'.refCountOfDisableRefCount > 0
       /\ (window.kind = "open" /\ window'.kind = "open" /\ status' = "run")
          => /\ pool'.refCountOfDisableRefCount
                   = pool.refCountOfDisableRefCount
             /\ pool'.refCountOfDisableRefCount > 0
             /\ pool'.entry[window.cur].refCount >= 1
             /\ pool'.entry[window.cur].pszFileName
                   = pool.entry[window.cur].pszFileName
             /\ pool'.entry[window.cur].responsiblePID
                   = pool.entry[window.cur].responsiblePID
             /\ pool'.entry[window.cur].poDS = pool.entry[window.cur].poDS
             /\ pool'.entry[window.cur].alloc
             /\ IsRef(last')
                => (last'.opened => last'.ret # window.cur)
       /\ (window.kind = "open" /\ window'.kind # "open" /\ status' = "run")
          => /\ pool'.refCountOfDisableRefCount
                   = pool.refCountOfDisableRefCount - 1
             /\ pool'.entry[window.cur].refCount
                   \in {pool.entry[window.cur].refCount,
                        pool.entry[window.cur].refCount - 1}]_vars

\* Inside the GDALOpenEx of an entry, a RefDataset on the full pool has
\* evicted another entry and opened a dataset into it.
C40_Witness ==
    /\ status = "run"
    /\ window.kind = "open"
    /\ IsRef(last) /\ last.outcome = "recycled" /\ last.closed # {}
    /\ last.ret # window.cur
    /\ pool.entry[window.cur].refCount = 1
    /\ pool.refCountOfDisableRefCount = 1

====
